---- MODULE Spec2Model ----
(***************************************************************************)
(* A model of the caching pipeline of next-handlebars                      *)
(* (src/src/next-handlebars.ts): the file-system cache `_fsCache`, the     *)
(* `compiled` and `precompiled` template caches, the operations that fill  *)
(* them (`_getFile`, `_getDir`, `getTemplate`) and `resetCache`.           *)
(*                                                                         *)
(* Granularity.  JavaScript runs one job at a time.  The code of an async  *)
(* method up to its first `await` runs inside the caller's job, so the     *)
(* start of a call is one atomic step.  When a file-system operation       *)
(* completes, the continuations waiting on its promise run in one drain    *)
(* of the microtask queue before any other event is served, so the         *)
(* completion and the continuations it wakes are one atomic step too.      *)
(***************************************************************************)
EXTENDS Integers, Sequences, FiniteSets, TLC

\* ------------------------------------------------------------------ bounds
MaxFsOps  == 2   \* file-system operations (readFile / glob) issued in a run
MaxTplOps == 2   \* getTemplate promises created in a run

\* ------------------------------------------------------------------- paths
\* A path is the string the caller wrote: absolute or relative, and its
\* segments.  The keys of the caches are such strings.
Path(a, s) == [abs |-> a, segs |-> s]

Cwd == <<"app">>                       \* process.cwd()

AbsA == Path(TRUE,  <<"app", "a.hbs">>)
RelA == Path(FALSE, <<"a.hbs">>)       \* the same file, relative to Cwd
AbsD == Path(TRUE,  <<"app">>)         \* the directory that holds it

\* Two partials directories, one given by an absolute and one by a relative
\* path.  `path.join(dir, file)` appends the pieces of the file name.
DirPA == Path(TRUE,  <<"app", "pa">>)
DirPB == Path(FALSE, <<"pb">>)
Join(d, file) == Path(d.abs, d.segs \o file)

\* A file name is the sequence of its pieces: card.hbs is <<"card", ".hbs">>.
CardFile == <<"card", ".hbs">>

\* A layouts directory, a views root, and the layouts and partials
\* directories renderView derives from a views root.
DirL == Path(FALSE, <<"layouts">>)
DirV == Path(FALSE, <<"views">>)

\* A second view, outside the working directory.
AbsB == Path(TRUE, <<"srv", "b.hbs">>)

\* The file-system root, and the working directory written as '.'.
Root == Path(TRUE, <<>>)
Dot  == Path(FALSE, <<".">>)

RawFiles == {AbsA, RelA}
RawDirs  == {AbsD}
RawPaths == RawFiles \cup RawDirs

RECURSIVE Normalize(_, _)
\* The segment normalisation of path.resolve: "." is dropped, ".." pops.
Normalize(segs, acc) ==
    IF segs = <<>> THEN acc
    ELSE LET h == Head(segs) IN
         IF h = "." THEN Normalize(Tail(segs), acc)
         ELSE IF h = ".."
              THEN Normalize(Tail(segs),
                             IF acc = <<>> THEN acc ELSE SubSeq(acc, 1, Len(acc) - 1))
              ELSE Normalize(Tail(segs), Append(acc, h))

\* path.resolve(p): an absolute path is kept, a relative one is joined to Cwd.
Resolve(p) ==
    Path(TRUE, Normalize(IF p.abs THEN p.segs ELSE Cwd \o p.segs, <<>>))

KeyA == Resolve(AbsA)
KeyD == Resolve(AbsD)
Keys == {Resolve(p) : p \in RawPaths}

\* ---------------------------------------------------------- finite mappings
\* A JavaScript object used as a dictionary: a function on the set of its keys.
Empty == [k \in {} |-> 0]

Has(m, k) == k \in DOMAIN m

Put(m, k, v) == [x \in DOMAIN m \cup {k} |-> IF x = k THEN v ELSE m[x]]

\* `delete m[k]`: removing a key that is not there changes nothing.
Delete(m, k) == [x \in DOMAIN m \ {k} |-> m[x]]

\* ------------------------------------------------------------------ values
\* What a promise holds once settled.  One record shape for every kind.
NoVal      == [t |-> "none", text |-> "", files |-> {}]
FileVal(c) == [t |-> "file", text |-> c, files |-> {}]
DirVal(fs) == [t |-> "dir", text |-> "", files |-> fs]
ErrVal(e)  == [t |-> e, text |-> "", files |-> {}]

\* A compiled template (an invocable function) or a precompiled specification
\* of the template text `c`.
Artifact(c, precompiled) ==
    [t |-> IF precompiled THEN "spec" ELSE "fn", text |-> c, files |-> {}]

IsErr(v) == v.t \in {"readError", "listError", "compileError"}

\* --------------------------------------------------------------- selectors
\* The argument of resetCache: nothing, a string, an array of strings or a
\* filter function.  An array is given by the set of its elements (deleting
\* is insensitive to order and repetition), a filter by the set of keys it
\* answers true for.
NoPath == Path(FALSE, <<>>)
SelAll      == [t |-> "all",  p |-> NoPath, ps |-> {}, f |-> {}]
SelStr(p)   == [t |-> "str",  p |-> p,      ps |-> {}, f |-> {}]
SelList(ps) == [t |-> "list", p |-> NoPath, ps |-> ps, f |-> {}]
SelPred(f)  == [t |-> "pred", p |-> NoPath, ps |-> {}, f |-> f]

Selectors ==
    {SelAll} \cup {SelStr(p) : p \in RawPaths}
             \cup {SelList(ps) : ps \in SUBSET RawPaths}
             \cup {SelPred(f) : f \in SUBSET Keys}

\* ------------------------------------------------------------------- state
VARIABLES
    disk,         \* the text of the template file a.hbs, or "none"
    fsOps,        \* every readFile / glob promise created so far, by identity
    fsCache,      \* this._fsCache: resolved path -> promise
    tplOps,       \* every promise created by getTemplate, by identity
    compiled,     \* this.compiled: resolved path -> promise
    precompiled,  \* this.precompiled: resolved path -> promise
    reqs,         \* the cache-enabled calls that wait on a pending promise; of
                  \* the File Cache calls, those made since the latest resetCache
    last,         \* the latest call made on the instance (see Did)
    gp,           \* the getPartials call: its directory tasks and its outcome
    rv,           \* the renderView call: where it stands and what it delivered
    gp2,          \* the getPartials call of a second renderView call
    rv2,          \* a second renderView call, made while the first is in flight
    inst          \* the configuration and the layoutsDir, partialsDir and
                  \* defaultLayout fields of the instance

vars == <<disk, fsOps, fsCache, tplOps, compiled, precompiled, reqs, last, gp, rv, gp2, rv2,
         inst>>

\* ---------------------------------------------------------- the file system
\* a.hbs is absent ("none"), holds one of two well-formed templates, or holds
\* text the compiler rejects ("bad").
Texts == {"v1", "v2", "bad"}
Disks == Texts \cup {"none"}

WellFormed(c) == c # "bad"

\* The partial files: each partials directory holds card.hbs, with a text of
\* its own, and these files do not change.
PartialFiles ==
    [k \in {Resolve(Join(DirPA, CardFile)), Resolve(Join(DirPB, CardFile))} |->
        IF k = Resolve(Join(DirPA, CardFile)) THEN "v1" ELSE "v2"]

\* The layout files, which do not change either: layouts/main.hbs wraps the
\* body, layouts/alt.html is rejected by the compiler, and the template of
\* views/layouts/main.hbs throws when it is rendered.  No other layout exists.
LayoutFiles ==
    [k \in {Resolve(Join(DirL, <<"main", ".hbs">>)),
            Resolve(Join(DirL, <<"alt", ".html">>)),
            Resolve(Join(DirV, <<"layouts", "main", ".hbs">>))} |->
        IF k = Resolve(Join(DirL, <<"main", ".hbs">>)) THEN "layout"
        ELSE IF k = Resolve(Join(DirL, <<"alt", ".html">>)) THEN "bad"
        ELSE "throws"]

\* The view /srv/b.hbs does not change: it is the text "v1" of a.hbs without
\* the white space around it.
ViewFiles == [k \in {Resolve(AbsB)} |-> "v1b"]

Exists(key) ==
    \/ key = KeyA /\ disk # "none"
    \/ key \in DOMAIN PartialFiles
    \/ key \in DOMAIN LayoutFiles
    \/ key \in DOMAIN ViewFiles

\* The text readFile yields for an existing file.
Content(key) ==
    IF key \in DOMAIN PartialFiles THEN PartialFiles[key]
    ELSE IF key \in DOMAIN LayoutFiles THEN LayoutFiles[key]
    ELSE IF key \in DOMAIN ViewFiles THEN ViewFiles[key]
    ELSE disk

\* What glob('**/*.hbs', {cwd: /app}) matches: the template files present.
Listing(key) ==
    IF key = KeyD /\ Exists(KeyA) THEN {"a.hbs"}
    ELSE IF key \in {Resolve(DirPA), Resolve(DirPB)} THEN {CardFile}
    ELSE {}

\* ------------------------------------------------------------------ promises
FsOp(key, kind) == [key |-> key, kind |-> kind, st |-> "pending", val |-> NoVal]

TplOp(key, pre, dep) ==
    [key |-> key, pre |-> pre, dep |-> dep, st |-> "pending", val |-> NoVal]

\* A waiting call: the promise it waits on and whether it created that promise.
Req(kind, key, pre, op, owner) ==
    [kind |-> kind, key |-> key, pre |-> pre, op |-> op, owner |-> owner]

\* The record of the latest call: `act` is the selector kind of a resetCache
\* call, "uncached" for a file or template call with cache = false,
\* "getPartials" for that call, and "other" for the rest;
\* `had` tells whether the reset removed an entry, or whether the File Cache
\* held an entry for the key of the cache-disabled call.  Completions and
\* changes of the file are not calls and leave the record alone.
Did(act, had) == [act |-> act, had |-> had]
Other == Did("other", FALSE)
Call(cache, key) == IF cache THEN Other ELSE Did("uncached", Has(fsCache, key))

Settled(o) == o.st # "pending"

\* ------------------------------------------------------- _getFile / _getDir
\* A lookup that forgets `options.cache &&`: any call uses a cached promise.
LookupAlways(cache, m, key) == Has(m, key)

\* `options.cache && cache[filePath]`: the cached promise is used only by a
\* call that enables the cache.
CacheHit(cache, m, key) == cache /\ Has(m, key)

\* `cache[filePath] = readFile(...)` / `dir = cache[dirPath] = glob(...)`:
\* the new promise is stored before the first await, whatever options.cache is.
StoreNew(cache, m, key, id) == Put(m, key, id)

\* A catch block without the `delete`: the rejected promise stays cached.
KeepFailed(m, key) == m

\* The catch block of the call that created the promise: `delete cache[key]`.
EvictFailed(m, key) == Delete(m, key)

\* The synchronous part of _getFile / _getDir for a resolved key: the promise
\* the call will wait on, and the promises and cache it leaves behind.
FsCall(key, kind, cache, ops, m) ==
    IF CacheHit(cache, m, key)
    THEN [ops |-> ops, m |-> m, op |-> m[key], fresh |-> FALSE]
    ELSE [ops |-> Append(ops, FsOp(key, kind)),
          m |-> StoreNew(cache, m, key, Len(ops) + 1),
          op |-> Len(ops) + 1, fresh |-> TRUE]

\* The calls added to the waiting set: a cache-enabled call whose promise is
\* still pending (on a settled promise the call returns in the job that made it).
Waiting(cache, r, ops) == IF cache /\ ~Settled(ops[r.op]) THEN {r} ELSE {}

\* readFile(path, {cache}): _getFile.
ReadFile(p, cache) ==
    LET key == Resolve(p)
        c   == FsCall(key, "file", cache, fsOps, fsCache)
    IN  /\ Len(c.ops) <= MaxFsOps
        /\ fsOps' = c.ops
        /\ fsCache' = c.m
        /\ reqs' = reqs \cup Waiting(cache, Req("file", key, FALSE, c.op, c.fresh), c.ops)
        /\ last' = Call(cache, key)
        /\ UNCHANGED <<disk, tplOps, compiled, precompiled>>

\* listFiles(dir, {cache}): _getDir.  `throwTest` is options._throwTestError:
\* the call throws after glob was started and stored, its catch block deletes
\* the key, and the glob promise is dropped: its outcome reaches no one.
ListFiles(d, cache, throwTest) ==
    LET key == Resolve(d)
        c   == FsCall(key, "dir", cache, fsOps, fsCache)
        thrown == c.fresh /\ throwTest
    IN  /\ Len(c.ops) <= MaxFsOps
        /\ fsOps' = IF thrown THEN [c.ops EXCEPT ![c.op].st = "dropped"] ELSE c.ops
        /\ fsCache' = IF thrown THEN EvictFailed(c.m, key) ELSE c.m
        /\ reqs' = IF thrown THEN reqs
                   ELSE reqs \cup Waiting(cache, Req("dir", key, FALSE, c.op, c.fresh), c.ops)
        /\ last' = Call(cache, key)
        /\ UNCHANGED <<disk, tplOps, compiled, precompiled>>

\* -------------------------------------------------------------- getTemplate
\* A catch block of getTemplate that rethrows without the `delete`.
KeepFailedTemplate(m, key) == m

\* The catch block of getTemplate: `delete cache[filePath]`.
EvictFailedTemplate(m, key) == Delete(m, key)

RECURSIVE EvictEach(_, _)
\* The catch blocks of several failed getTemplate calls, one after the other.
EvictEach(m, keys) ==
    IF keys = {} THEN m
    ELSE LET k == CHOOSE x \in keys : TRUE
         IN  EvictEach(EvictFailedTemplate(m, k), keys \ {k})

\* A getTemplate that serves a cached template only while the File Cache
\* holds the file it was made from.
GetTemplateChecksFile(p, cache, pre) ==
    LET key == Resolve(p)
        tc  == IF pre THEN precompiled ELSE compiled
    IN  IF CacheHit(cache, tc, key) /\ Has(fsCache, key)
        THEN /\ reqs' = reqs \cup Waiting(cache, Req("tpl", key, pre, tc[key], FALSE), tplOps)
             /\ last' = Other
             /\ UNCHANGED <<disk, fsOps, fsCache, tplOps, compiled, precompiled>>
        ELSE LET c   == FsCall(key, "file", cache, fsOps, fsCache)
                 tid == Len(tplOps) + 1
             IN  /\ Len(c.ops) <= MaxFsOps
                 /\ tid <= MaxTplOps
                 /\ fsOps' = c.ops
                 /\ fsCache' = c.m
                 /\ tplOps' = Append(tplOps, TplOp(key, pre, c.op))
                 /\ compiled' = IF pre THEN compiled ELSE StoreNew(cache, compiled, key, tid)
                 /\ precompiled' = IF pre THEN StoreNew(cache, precompiled, key, tid)
                                   ELSE precompiled
                 /\ reqs' = reqs \cup (IF cache THEN {Req("tpl", key, pre, tid, TRUE)} ELSE {})
                                 \cup Waiting(cache, Req("file", key, FALSE, c.op, c.fresh), c.ops)
                 /\ last' = Call(cache, key)
                 /\ UNCHANGED disk

\* A getTemplate that keeps both representations in `this.compiled`.
GetTemplateOneCache(p, cache, pre) ==
    LET key == Resolve(p)
    IN  IF CacheHit(cache, compiled, key)
        THEN /\ reqs' = reqs \cup Waiting(cache, Req("tpl", key, pre, compiled[key], FALSE), tplOps)
             /\ last' = Other
             /\ UNCHANGED <<disk, fsOps, fsCache, tplOps, compiled, precompiled>>
        ELSE LET c   == FsCall(key, "file", cache, fsOps, fsCache)
                 tid == Len(tplOps) + 1
             IN  /\ Len(c.ops) <= MaxFsOps
                 /\ tid <= MaxTplOps
                 /\ fsOps' = c.ops
                 /\ fsCache' = c.m
                 /\ tplOps' = Append(tplOps, TplOp(key, pre, c.op))
                 /\ compiled' = StoreNew(cache, compiled, key, tid)
                 /\ reqs' = reqs \cup (IF cache THEN {Req("tpl", key, pre, tid, TRUE)} ELSE {})
                                 \cup Waiting(cache, Req("file", key, FALSE, c.op, c.fresh), c.ops)
                 /\ last' = Call(cache, key)
                 /\ UNCHANGED <<disk, precompiled>>

\* getTemplate(path, {cache, precompiled}).
GetTemplate(p, cache, pre) ==
    LET key == Resolve(p)
        tc  == IF pre THEN precompiled ELSE compiled
    IN  IF CacheHit(cache, tc, key)
        THEN /\ reqs' = reqs \cup Waiting(cache, Req("tpl", key, pre, tc[key], FALSE), tplOps)
             /\ last' = Other
             /\ UNCHANGED <<disk, fsOps, fsCache, tplOps, compiled, precompiled>>
        ELSE LET c   == FsCall(key, "file", cache, fsOps, fsCache)
                 tid == Len(tplOps) + 1
             IN  /\ Len(c.ops) <= MaxFsOps
                 /\ tid <= MaxTplOps
                 /\ fsOps' = c.ops
                 /\ fsCache' = c.m
                 /\ tplOps' = Append(tplOps, TplOp(key, pre, c.op))
                 /\ compiled' = IF pre THEN compiled ELSE StoreNew(cache, compiled, key, tid)
                 /\ precompiled' = IF pre THEN StoreNew(cache, precompiled, key, tid)
                                   ELSE precompiled
                 /\ reqs' = reqs \cup (IF cache THEN {Req("tpl", key, pre, tid, TRUE)} ELSE {})
                                 \cup Waiting(cache, Req("file", key, FALSE, c.op, c.fresh), c.ops)
                 /\ last' = Call(cache, key)
                 /\ UNCHANGED disk

\* The `.then` callback of getTemplate on the file promise `d`: a read error
\* is passed on, _compileTemplate / _precompileTemplate throws on text the
\* compiler rejects, and returns the artifact otherwise.
CompileResult(t, d) ==
    IF d.st = "err" THEN d.val
    ELSE IF ~WellFormed(d.val.text) THEN ErrVal("compileError")
    ELSE Artifact(d.val.text, t.pre)

\* The getTemplate promises `ts` settle, given the file promises `ops`: each
\* takes its result, and the call that created a failed one evicts its key.
SettleTemplates(ts, ops) ==
    LET res(i) == CompileResult(tplOps[i], ops[tplOps[i].dep])
        failed(pre) == {tplOps[i].key : i \in {j \in ts : IsErr(res(j)) /\ tplOps[j].pre = pre}}
    IN  /\ tplOps' = [i \in DOMAIN tplOps |->
                        IF i \in ts
                        THEN [tplOps[i] EXCEPT !.st = IF IsErr(res(i)) THEN "err" ELSE "ok",
                                               !.val = res(i)]
                        ELSE tplOps[i]]
        /\ compiled' = EvictEach(compiled, failed(FALSE))
        /\ precompiled' = EvictEach(precompiled, failed(TRUE))

\* A getTemplate promise created on a file promise that was already settled
\* settles in the microtask drain of the job that created it.
TemplateSettle(t) ==
    /\ tplOps[t].st = "pending"
    /\ Settled(fsOps[tplOps[t].dep])
    /\ SettleTemplates({t}, fsOps)
    /\ reqs' = {r \in reqs : ~(r.kind = "tpl" /\ r.op = t)}
    /\ UNCHANGED <<disk, fsOps, fsCache, last>>

\* ------------------------------------------------ completion of an fs promise
\* readFile yields the text on disk or fails when the file is missing; glob
\* yields the matching files or fails.
FsResult(o, fail) ==
    IF o.kind = "file"
    THEN IF Exists(o.key) THEN FileVal(Content(o.key)) ELSE ErrVal("readError")
    ELSE IF fail THEN ErrVal("listError") ELSE DirVal(Listing(o.key))

\* A variant in which the call that created the promise stores it again
\* once it has the result.
FsCompleteStores(id, fail) ==
    LET o   == fsOps[id]
        val == FsResult(o, fail)
        ops == [fsOps EXCEPT ![id].st = IF IsErr(val) THEN "err" ELSE "ok",
                             ![id].val = val]
        ts  == {i \in DOMAIN tplOps : tplOps[i].st = "pending" /\ tplOps[i].dep = id}
    IN  /\ o.st = "pending"
        /\ (o.kind = "file") => (fail = ~Exists(o.key))
        /\ fsOps' = ops
        /\ fsCache' = IF IsErr(val) THEN EvictFailed(fsCache, o.key) ELSE Put(fsCache, o.key, id)
        /\ SettleTemplates(ts, ops)
        /\ reqs' = {r \in reqs : ~(r.kind \in {"file", "dir"} /\ r.op = id)
                                 /\ ~(r.kind = "tpl" /\ r.op \in ts)}
        /\ UNCHANGED <<disk, last>>

\* The promise `id` settles.  The call that created it is the first waiter:
\* on failure its catch block evicts the key.  Then every getTemplate promise
\* chained on it settles, and the waiting calls return.
FsComplete(id, fail) ==
    LET o   == fsOps[id]
        val == FsResult(o, fail)
        ops == [fsOps EXCEPT ![id].st = IF IsErr(val) THEN "err" ELSE "ok",
                             ![id].val = val]
        ts  == {i \in DOMAIN tplOps : tplOps[i].st = "pending" /\ tplOps[i].dep = id}
    IN  /\ o.st = "pending"
        /\ (o.kind = "file") => (fail = ~Exists(o.key))
        /\ fsOps' = ops
        /\ fsCache' = IF IsErr(val) THEN EvictFailed(fsCache, o.key) ELSE fsCache
        /\ SettleTemplates(ts, ops)
        /\ reqs' = {r \in reqs : ~(r.kind \in {"file", "dir"} /\ r.op = id)
                                 /\ ~(r.kind = "tpl" /\ r.op \in ts)}
        /\ UNCHANGED <<disk, last>>

\* ---------------------------------------------------------------- resetCache
\* resetCache without the `typeof filePathsOrFilter === 'undefined'` branch:
\* a missing argument matches no branch and `filePaths` stays empty.
ResetPathsNoDefault(sel, m) ==
    IF sel.t = "all" THEN {}
    ELSE IF sel.t = "str" THEN {sel.p}
    ELSE IF sel.t = "pred" THEN {k \in DOMAIN m : k \in sel.f}
    ELSE sel.ps

\* The `filePaths` array resetCache builds from its argument.
ResetPaths(sel, m) ==
    IF sel.t = "all" THEN DOMAIN m
    ELSE IF sel.t = "str" THEN {sel.p}
    ELSE IF sel.t = "pred" THEN {k \in DOMAIN m : k \in sel.f}
    ELSE sel.ps

\* A loop that leaves after its first iteration.
DeleteFirst(m, paths) ==
    IF paths = {} THEN m ELSE Delete(m, CHOOSE x \in paths : TRUE)

RECURSIVE DeleteEach(_, _)
\* `for (const filePath of filePaths) delete this._fsCache[filePath]`.
DeleteEach(m, paths) ==
    IF paths = {} THEN m
    ELSE LET k == CHOOSE x \in paths : TRUE
         IN  DeleteEach(Delete(m, k), paths \ {k})

\* A resetCache that also drops the selected keys from `compiled`.
AfterResetAlsoCompiled(sel, fc, co, pc) ==
    [fsCache |-> DeleteEach(fc, ResetPaths(sel, fc)),
     compiled |-> DeleteEach(co, ResetPaths(sel, co)),
     precompiled |-> pc]

\* A resetCache that builds `filePaths` and deletes nothing.
AfterResetKeepsFiles(sel, fc, co, pc) ==
    [fsCache |-> fc, compiled |-> co, precompiled |-> pc]

\* What resetCache leaves of the three caches.
AfterReset(sel, fc, co, pc) ==
    [fsCache |-> DeleteEach(fc, ResetPaths(sel, fc)), compiled |-> co, precompiled |-> pc]

ResetCache(sel) ==
    LET r == AfterReset(sel, fsCache, compiled, precompiled)
    IN  /\ fsCache' = r.fsCache
        /\ compiled' = r.compiled
        /\ precompiled' = r.precompiled
        /\ reqs' = {q \in reqs : q.kind = "tpl"}
        /\ last' = Did(sel.t, r.fsCache # fsCache)
        /\ UNCHANGED <<disk, fsOps, tplOps>>

\* ------------------------------------------------------------ partial names
\* Names and relative file paths are sequences of pieces; a namespace is a
\* sequence too, and the empty one stands for no namespace (undefined, null
\* or the empty string, which `if (namespace)` does not tell apart).
ExtName == <<".hbs">>                  \* this.extname

EndsWith(str, suffix) ==
    /\ Len(str) >= Len(suffix)
    /\ SubSeq(str, Len(str) - Len(suffix) + 1, Len(str)) = suffix

\* A derivation that strips the last piece whether or not it is the extension.
StripLastPiece(filePath, namespace) ==
    LET name == IF filePath = <<>> THEN filePath
                ELSE SubSeq(filePath, 1, Len(filePath) - 1)
    IN  IF namespace # <<>> THEN namespace \o <<"/">> \o name ELSE name

\* _getTemplateName(filePath, namespace).
GetTemplateName(filePath, namespace) ==
    LET name == IF EndsWith(filePath, ExtName)
                THEN SubSeq(filePath, 1, Len(filePath) - Len(ExtName))
                ELSE filePath
    IN  IF namespace # <<>> THEN namespace \o <<"/">> \o name ELSE name

\* The rename functions a descriptor may carry: "keep" is (path) => path and
\* "tag" is (path, namespace) => path + '@' + namespace; "none" is no function.
Rename(fn, filePath, namespace) ==
    IF fn = "keep" THEN filePath ELSE filePath \o <<"@">> \o namespace

\* A naming that applies the default derivation to what rename returns.
RenameThenDefault(rename, filePath, namespace) ==
    IF rename # "none"
    THEN GetTemplateName(Rename(rename, filePath, namespace), namespace)
    ELSE GetTemplateName(filePath, namespace)

\* `typeof rename === 'function' ? rename : this._getTemplateName.bind(this)`,
\* applied to (filePath, namespace).
PartialName(rename, filePath, namespace) ==
    IF rename # "none" THEN Rename(rename, filePath, namespace)
    ELSE GetTemplateName(filePath, namespace)

\* ------------------------------------------------------- partials descriptors
\* An entry of partialsDir: a string (a path) or an object with the fields
\* dir, templates, namespace and rename.  `given` tells whether `templates`
\* is present; NoPath stands for a missing or empty `dir`.
Desc(dir, given, templates, namespace, rename) ==
    [dir |-> dir, given |-> given, templates |-> templates,
     namespace |-> namespace, rename |-> rename]

\* Artifacts supplied by the caller, under a key without extension.
Supplied == [k \in {<<"card">>} |-> Artifact("supplied", FALSE)]

DescStr(dir) == Desc(dir, FALSE, Empty, <<>>, "none")

Descs ==
    { DescStr(DirPA),
      DescStr(DirPB),
      Desc(DirPA, FALSE, Empty, <<"x">>, "none"),
      Desc(DirPA, FALSE, Empty, <<"x">>, "keep"),
      Desc(DirPB, FALSE, Empty, <<"x">>, "tag"),
      Desc(NoPath, TRUE, Supplied, <<>>, "none"),
      Desc(DirPA, TRUE, Supplied, <<"x">>, "none"),
      Desc(NoPath, FALSE, Empty, <<>>, "none") }

MaxDirs == 2   \* entries of the partialsDir array

\* this.partialsDir: undefined, or the array of its entries.
Config(defined, dirs) == [defined |-> defined, dirs |-> dirs]
Configs ==
    {Config(FALSE, <<>>)}
        \cup {Config(TRUE, ds) : ds \in UNION {[1..n -> Descs] : n \in 0..MaxDirs}}

\* ---------------------------------------------------------------- getPartials
\* One callback of `partialsDirs.map(async (dir) => ...)`: the entry, what it
\* waits on (the listing `op`, then the getTemplate promises `tpls`, as pairs
\* of file and promise) and what it settled with.
Task(desc, st, op, tpls, templates, err) ==
    [desc |-> desc, st |-> st, op |-> op, tpls |-> tpls,
     templates |-> templates, err |-> err]

\* A callback that lists the directory whenever the entry has a path, and
\* falls back on supplied templates only without one.
StartDirPathFirst(desc, cache, ops, m) ==
    IF desc.dir = NoPath /\ ~desc.given
    THEN [ops |-> ops, m |-> m,
          task |-> Task(desc, "rejected", 0, {}, Empty, ErrVal("configError"))]
    ELSE IF desc.dir = NoPath
    THEN [ops |-> ops, m |-> m,
          task |-> Task(desc, "resolved", 0, {}, desc.templates, NoVal)]
    ELSE LET c == FsCall(Resolve(desc.dir), "dir", cache, ops, m)
         IN  [ops |-> c.ops, m |-> c.m,
              task |-> Task(desc, "listing", c.op, {}, Empty, NoVal)]

\* The callback up to its first await.  An entry with neither a path nor
\* templates throws; supplied templates are used as they are; otherwise
\* getTemplates(dirPath, options) runs up to the await in _getDir.
StartDir(desc, cache, ops, m) ==
    IF desc.dir = NoPath /\ ~desc.given
    THEN [ops |-> ops, m |-> m,
          task |-> Task(desc, "rejected", 0, {}, Empty, ErrVal("configError"))]
    ELSE IF desc.given
    THEN [ops |-> ops, m |-> m,
          task |-> Task(desc, "resolved", 0, {}, desc.templates, NoVal)]
    ELSE LET c == FsCall(Resolve(desc.dir), "dir", cache, ops, m)
         IN  [ops |-> c.ops, m |-> c.m,
              task |-> Task(desc, "listing", c.op, {}, Empty, NoVal)]

RECURSIVE StartDirs(_, _, _)
\* `partialsDirs.map(...)`: the callbacks start one after the other, in the
\* order of the array, before any of them resumes.
StartDirs(dirs, cache, acc) ==
    IF dirs = <<>> THEN acc
    ELSE LET r == StartDir(Head(dirs), cache, acc.ops, acc.m)
         IN  StartDirs(Tail(dirs), cache,
                       [ops |-> r.ops, m |-> r.m, tasks |-> Append(acc.tasks, r.task)])

\* An assignment that keeps the value a name already has.
AssignIfAbsent(partials, name, template) ==
    IF Has(partials, name) THEN partials ELSE Put(partials, name, template)

\* `partials[partialName] = templates[filePath]`.
Assign(partials, name, template) == Put(partials, name, template)

RECURSIVE MergeFiles(_, _, _)
\* The inner loop over the files of one directory.
MergeFiles(task, files, partials) ==
    IF files = {} THEN partials
    ELSE LET f == CHOOSE x \in files : TRUE
         IN  MergeFiles(task, files \ {f},
                        Assign(partials,
                               PartialName(task.desc.rename, f, task.desc.namespace),
                               task.templates[f]))

RECURSIVE MergeDirs(_, _)
\* `for (const dir of dirs)`: the directories in the order of the array.
MergeDirs(tasks, partials) ==
    IF tasks = <<>> THEN partials
    ELSE MergeDirs(Tail(tasks),
                   MergeFiles(Head(tasks), DOMAIN Head(tasks).templates, partials))

\* `await Promise.all(...)` and the merge: the call fails with the first
\* rejection, and succeeds with the merged mapping once every callback has
\* resolved.  The callbacks go on after a failure of the call.
Outcome(g, tasks) ==
    LET rejected == {i \in DOMAIN tasks : tasks[i].st = "rejected"}
    IN  IF g.st # "pending" THEN [g EXCEPT !.tasks = tasks]
        ELSE IF rejected # {}
        THEN [g EXCEPT !.tasks = tasks, !.st = "err",
                       !.err = tasks[CHOOSE i \in rejected : TRUE].err]
        ELSE IF \A i \in DOMAIN tasks : tasks[i].st = "resolved"
        THEN [g EXCEPT !.tasks = tasks, !.st = "ok", !.val = MergeDirs(tasks, Empty)]
        ELSE [g EXCEPT !.tasks = tasks]

NoCall == [st |-> "idle", defined |-> FALSE, cache |-> FALSE, tasks |-> <<>>,
           val |-> Empty, err |-> NoVal]

\* A variant without the `typeof this.partialsDir === 'undefined'` return: a
\* missing partialsDir is wrapped in an array and read as one entry.
WrapUndefined(config) ==
    IF config.defined THEN config.dirs ELSE <<Desc(NoPath, FALSE, Empty, <<>>, "none")>>

\* The entries getPartials works on: none when partialsDir is undefined.
PartialsDirs(config) == IF config.defined THEN config.dirs ELSE <<>>

\* getPartials({cache}) up to its await, on given promises and File Cache:
\* what it leaves of them, and the call.
GetPartialsFrom(config, cache, ops, m) ==
    LET r == StartDirs(PartialsDirs(config), cache,
                       [ops |-> ops, m |-> m, tasks |-> <<>>])
        g == [NoCall EXCEPT !.st = "pending", !.defined = config.defined,
                            !.cache = cache]
    IN  [ops |-> r.ops, m |-> r.m, call |-> Outcome(g, r.tasks)]

\* getPartials({cache}) on an instance whose partialsDir is `config`.
GetPartials(config, cache) ==
    LET r == GetPartialsFrom(config, cache, fsOps, fsCache)
    IN  /\ gp.st = "idle"
        /\ fsOps' = r.ops
        /\ fsCache' = r.m
        /\ gp' = r.call
        /\ last' = Did("getPartials", FALSE)
        /\ UNCHANGED <<disk, tplOps, compiled, precompiled, reqs>>

\* The synchronous part of getTemplate(path, {cache}) on given caches: the
\* promise the call waits on and what the call leaves behind.
TemplateCall(key, cache, acc) ==
    IF CacheHit(cache, acc.co, key)
    THEN [acc EXCEPT !.tid = acc.co[key]]
    ELSE LET c   == FsCall(key, "file", cache, acc.ops, acc.m)
             tid == Len(acc.tpls) + 1
         IN  [ops |-> c.ops, m |-> c.m,
              tpls |-> Append(acc.tpls, TplOp(key, FALSE, c.op)),
              co |-> StoreNew(cache, acc.co, key, tid),
              tid |-> tid, tasks |-> acc.tasks]

\* A callback whose getTemplate promises have all settled settles too.
Progress(task, tpls) ==
    LET ids == {x[2] : x \in task.tpls}
        failed == {i \in ids : tpls[i].st = "err"}
    IN  IF task.st # "compiling" THEN task
        ELSE IF failed # {}
        THEN [task EXCEPT !.st = "rejected", !.err = tpls[CHOOSE i \in failed : TRUE].val]
        ELSE IF \A i \in ids : tpls[i].st = "ok"
        THEN [task EXCEPT !.st = "resolved",
                          !.templates = [f \in {x[1] : x \in task.tpls} |->
                                            tpls[(CHOOSE x \in task.tpls : x[1] = f)[2]].val]]
        ELSE task

RECURSIVE GetTemplatesFiles(_, _, _, _)
\* getTemplates after the listing: `filePaths.map((filePath) =>
\* this.getTemplate(path.join(dirPath, filePath), options))`.
GetTemplatesFiles(task, files, cache, acc) ==
    IF files = {} THEN [acc |-> acc, task |-> task]
    ELSE LET f == CHOOSE x \in files : TRUE
             c == TemplateCall(Resolve(Join(task.desc.dir, f)), cache, acc)
         IN  GetTemplatesFiles([task EXCEPT !.st = "compiling",
                                            !.tpls = task.tpls \cup {<<f, c.tid>>}],
                               files \ {f}, cache, c)

RECURSIVE ResumeListed(_, _, _, _, _)
\* The callbacks that wait on the listing `id` resume, in the order in which
\* they began to wait: with its error, or each with its getTemplate calls.
ResumeListed(i, id, val, cache, acc) ==
    IF i > Len(acc.tasks) THEN acc
    ELSE LET task == acc.tasks[i]
         IN  IF ~(task.st = "listing" /\ task.op = id)
             THEN ResumeListed(i + 1, id, val, cache, acc)
             ELSE IF IsErr(val)
             THEN ResumeListed(i + 1, id, val, cache,
                      [acc EXCEPT !.tasks[i] = [task EXCEPT !.st = "rejected", !.err = val]])
             ELSE LET r == GetTemplatesFiles([task EXCEPT !.st = "compiling"],
                                             val.files, cache, acc)
                  IN  ResumeListed(i + 1, id, val, cache,
                          [r.acc EXCEPT !.tasks[i] = Progress(r.task, r.acc.tpls)])

\* A variant in which a getTemplate promise created on a file promise that
\* had settled is left pending.
LeaveJoined(acc) == acc

\* The getTemplate promises that were created on a file promise of the File
\* Cache that had settled before settle in the microtask drain of the job
\* that created them; the call that created a failed one evicts its key.
SettleJoined(acc) ==
    LET ts == {i \in DOMAIN acc.tpls :
                 acc.tpls[i].st = "pending" /\ Settled(acc.ops[acc.tpls[i].dep])}
        res(i) == CompileResult(acc.tpls[i], acc.ops[acc.tpls[i].dep])
    IN  [acc EXCEPT
           !.tpls = [i \in DOMAIN acc.tpls |->
                       IF i \in ts
                       THEN [acc.tpls[i] EXCEPT !.st = IF IsErr(res(i)) THEN "err" ELSE "ok",
                                                !.val = res(i)]
                       ELSE acc.tpls[i]],
           !.co = EvictEach(acc.co, {acc.tpls[i].key : i \in {j \in ts : IsErr(res(j))}})]

RECURSIVE ResumeSettled(_, _)
\* The callbacks that wait on a listing of the File Cache that had settled
\* before they began to wait resume in that same drain.
ResumeSettled(cache, acc) ==
    LET joined == {i \in DOMAIN acc.tasks :
                     acc.tasks[i].st = "listing" /\ Settled(acc.ops[acc.tasks[i].op])}
    IN  IF joined = {} THEN acc
        ELSE LET id == acc.tasks[CHOOSE i \in joined : TRUE].op
             IN  ResumeSettled(cache, ResumeListed(1, id, acc.ops[id].val, cache, acc))

\* The listing `id` of a partials directory settles: the catch block of
\* _getDir evicts a failed listing, and the waiting callbacks resume, those
\* of the call that was made first before those of the second.
PartialsListed(id, fail) ==
    LET o   == fsOps[id]
        val == FsResult(o, fail)
        ops == [fsOps EXCEPT ![id].st = IF IsErr(val) THEN "err" ELSE "ok",
                             ![id].val = val]
        r   == ResumeListed(1, id, val, gp.cache,
                            [ops |-> ops,
                             m |-> IF IsErr(val) THEN EvictFailed(fsCache, o.key) ELSE fsCache,
                             tpls |-> tplOps, co |-> compiled, tid |-> 0,
                             tasks |-> gp.tasks])
        r2  == ResumeListed(1, id, val, gp2.cache, [r EXCEPT !.tasks = gp2.tasks])
    IN  /\ o.st = "pending"
        /\ o.kind = "dir"
        /\ fsOps' = r2.ops
        /\ fsCache' = r2.m
        /\ tplOps' = r2.tpls
        /\ compiled' = r2.co
        /\ gp' = Outcome(gp, r.tasks)
        /\ gp2' = Outcome(gp2, r2.tasks)
        /\ UNCHANGED <<disk, precompiled, reqs, last>>

\* The read `id` of a partial file settles: what FsComplete does, and then
\* the callbacks whose templates have all settled resume.
PartialsFileRead(id, fail) ==
    /\ fsOps[id].kind = "file"
    /\ FsComplete(id, fail)
    /\ gp' = Outcome(gp, [i \in DOMAIN gp.tasks |-> Progress(gp.tasks[i], tplOps')])
    /\ gp2' = Outcome(gp2, [i \in DOMAIN gp2.tasks |-> Progress(gp2.tasks[i], tplOps')])

\* ------------------------------------------------------------------ rendering
\* The source of a template text, as a sequence of pieces; " " is white space
\* and Body is the expression {{{body}}}.
Body == "{{{body}}}"

Source(text) ==
    IF text = "v1" THEN <<" ", "<p>X</p>", " ">>
    ELSE IF text = "v1b" THEN <<"<p>X</p>">>
    ELSE IF text = "v2" THEN <<"<p>Y</p>">>
    ELSE IF text = "layout" THEN <<"<body>", Body, "</body>", " ">>
    ELSE <<>>

RECURSIVE TrimLeft(_)
TrimLeft(str) == IF str # <<>> /\ Head(str) = " " THEN TrimLeft(Tail(str)) ELSE str

RECURSIVE TrimRight(_)
TrimRight(str) ==
    IF str # <<>> /\ str[Len(str)] = " "
    THEN TrimRight(SubSeq(str, 1, Len(str) - 1)) ELSE str

\* String.prototype.trim.
Trim(str) == TrimRight(TrimLeft(str))

RECURSIVE Expand(_, _)
\* What the template function returns: the pieces of the source, with
\* {{{body}}} replaced by the body field of the context (nothing without one).
Expand(src, context) ==
    IF src = <<>> THEN <<>>
    ELSE (IF Head(src) # Body THEN <<Head(src)>>
          ELSE IF Has(context, "body") THEN context["body"] ELSE <<>>)
         \o Expand(Tail(src), context)

\* The outcome of a render step: the error it threw, or NoVal and the HTML.
Out(err, html) == [err |-> err, html |-> html]

\* A compile and a render that trim neither the source nor the result.
RenderUntrimmed(template, context) ==
    IF template.text = "throws" THEN Out(ErrVal("renderError"), <<>>)
    ELSE Out(NoVal, Expand(Source(template.text), context))

\* _compileTemplate trims the source; _renderTemplate runs the template on
\* the context and trims the result.  The template of "throws" throws.
RenderTemplate(template, context) ==
    IF template.text = "throws" THEN Out(ErrVal("renderError"), <<>>)
    ELSE Out(NoVal, Trim(Expand(Trim(Source(template.text)), context)))

\* A layout context that keeps the caller's body field.
KeepBody(context, html) == IF Has(context, "body") THEN context ELSE Put(context, "body", html)

\* `{ ...context, body: html }`.
WithBody(context, html) == Put(context, "body", html)

\* A merge in which the value of the instance wins on a name collision.
MergeInstanceWins(instance, call) ==
    [k \in DOMAIN instance \cup DOMAIN call |->
        IF k \in DOMAIN instance THEN instance[k] ELSE call[k]]

\* `{ ...instance, ...call }`: the keys of both, and the value of the call
\* for a key both have.
Merge(instance, call) ==
    [k \in DOMAIN instance \cup DOMAIN call |->
        IF k \in DOMAIN call THEN call[k] ELSE instance[k]]

\* A value of the data channel.  Under the key exphbs render puts the file
\* path, the merged helpers, the partials and the merged runtime options.
Exphbs(filePath, helpers, partials, runtimeOptions) ==
    [filePath |-> filePath, helpers |-> helpers, partials |-> partials,
     runtimeOptions |-> runtimeOptions]

\* A data channel in which the caller's entries come last and win.
DataCallerWins(data, exphbs) ==
    IF Has(data, "exphbs") THEN data ELSE Put(data, "exphbs", exphbs)

\* `{ ...options.data, exphbs: {...} }`.
DataChannel(data, exphbs) == Put(data, "exphbs", exphbs)

\* What render(filePath, context, options) hands to _renderTemplate, for the
\* partials it awaited: the context and `{ ...runtimeOptions, data, helpers,
\* partials }`, with the helpers and runtime options of the instance merged
\* with those of the options.
RenderArgs(filePath, context, o, partials, i) ==
    LET helpers == Merge(i.helpers, o.helpers)
        runtimeOptions == Merge(i.runtimeOptions, o.runtimeOptions)
    IN  [filePath |-> filePath, context |-> context, helpers |-> helpers,
         partials |-> partials, runtimeOptions |-> runtimeOptions,
         data |-> DataChannel(o.data, Exphbs(filePath, helpers, partials, runtimeOptions))]

\* ------------------------------------------------------------------- instance
\* An extension as the caller configures it: the name, with or without the
\* leading dot.  ExtName is the normalised extension as a piece of a file name.
ExtBare   == <<"hbs">>
ExtDotted == <<".", "hbs">>

\* The configuration object.  A directory that is NoPath is falsy: undefined,
\* or the empty string when `given` names the key; helpers and runtimeOptions
\* that are absent are empty.
InstConfig(layoutsDir, partialsDir, defaultLayout) ==
    [layoutsDir |-> layoutsDir, partialsDir |-> partialsDir,
     defaultLayout |-> defaultLayout,
     given |-> (IF layoutsDir # NoPath THEN {"layoutsDir"} ELSE {})
                  \cup (IF partialsDir.defined THEN {"partialsDir"} ELSE {}),
     extname |-> ExtDotted, helpers |-> Empty, runtimeOptions |-> Empty]

\* A variant of the constructor without the normalisation of extname.
KeepExtname(extname) == extname

\* `if (this.extname.charAt(0) !== '.') this.extname = '.' + this.extname`.
NormalizeExtname(extname) ==
    IF extname # <<>> /\ Head(extname) = "." THEN extname ELSE <<".">> \o extname

\* Object.assign(this, defaultConfig, config); this.config = config; the
\* normalisation of extname.
NewInstance(config) ==
    [config |-> config, layoutsDir |-> config.layoutsDir,
     partialsDir |-> config.partialsDir, defaultLayout |-> config.defaultLayout,
     extname |-> NormalizeExtname(config.extname),
     helpers |-> config.helpers, runtimeOptions |-> config.runtimeOptions]

\* The layout names: a name is a sequence of pieces, and the empty one
\* stands for any falsy value (false, null, undefined, '').
NoLayout   == <<>>
LayoutMain == <<"main">>
LayoutAlt  == <<"alt", ".html">>

\* defaultConfig: no layoutsDir, no partialsDir, defaultLayout 'main'.
DefaultConfig == InstConfig(NoPath, Config(FALSE, <<>>), LayoutMain)

\* Helpers and runtime options are objects: name -> value.  The values tell
\* where an entry comes from.
InstConfigs ==
    { InstConfig(l, pd, dl) :
        l \in {NoPath, DirL},
        pd \in {Config(FALSE, <<>>), Config(TRUE, <<DescStr(DirPA)>>),
                Config(TRUE, <<Desc(NoPath, FALSE, Empty, <<>>, "none")>>)},
        dl \in {LayoutMain, NoLayout} }
        \cup { [DefaultConfig EXCEPT !.given = {"layoutsDir"}],
               [DefaultConfig EXCEPT !.extname = ExtBare],
               [InstConfig(DirL, Config(TRUE, <<DescStr(DirPA),
                                                Desc(DirPB, FALSE, Empty, <<"x">>, "none")>>),
                           LayoutMain)
                   EXCEPT !.extname = ExtBare,
                          !.helpers = [k \in {"upper", "lower"} |-> "instance"],
                          !.runtimeOptions = [k \in {"strict", "lazy"} |-> "instance"]] }

\* ------------------------------------------------------------------ renderView
\* settings.views: a string (NoPath when it is absent or empty) or an array
\* of strings.
ViewsStr(p)  == [arr |-> FALSE, str |-> p, list |-> <<>>]
ViewsList(l) == [arr |-> TRUE, str |-> NoPath, list |-> l]

\* The options of a call: `given` tells whether the key `layout` is in the
\* options, `views` is settings.views, and the context is the options object
\* itself, of which the fields a template reads are kept.
\* The keys helpers, partials, runtimeOptions and data are absent unless
\* WithExtras adds them; an absent object reads as an empty one, and
\* `hasPartials` tells whether the key partials is there.
Opts(given, layout, views, cache, context) ==
    [given |-> given, layout |-> layout, views |-> views, cache |-> cache,
     context |-> context, helpers |-> Empty, hasPartials |-> FALSE,
     partials |-> Empty, runtimeOptions |-> Empty, data |-> Empty]

\* What a caller passes per call.  'upper' and 'strict' are also names of the
\* instance, 'card' is also a partial of the directory pa, and the caller's
\* data has an entry of its own under the key exphbs.
CallData ==
    [k \in {"user", "exphbs"} |-> Exphbs(Path(FALSE, <<"spoofed">>), Empty, Empty, Empty)]

WithExtras(o) ==
    [o EXCEPT !.helpers = [k \in {"upper", "trim"} |-> "call"],
              !.hasPartials = TRUE,
              !.partials = [k \in {<<"card">>, <<"badge">>} |-> Artifact("supplied", FALSE)],
              !.runtimeOptions = [k \in {"strict", "proto"} |-> "call"],
              !.data = CallData]

Contexts ==
    { [k \in {"title"} |-> <<"T">>],
      [k \in {"title", "body"} |-> IF k = "body" THEN <<"mine">> ELSE <<"T">>] }

\* The calls renderView is given.  Of the arrays of views roots, the view
\* /app/a.hbs lies under / and /app (also written '.'), and not under
\* /app/views.
OptsSet ==
    { Opts(FALSE, NoLayout, ViewsStr(v), c, x) :
        v \in {NoPath, DirV}, c \in BOOLEAN, x \in Contexts }
        \cup { Opts(TRUE, l, ViewsStr(v), c, x) :
                 l \in {NoLayout, LayoutMain, LayoutAlt},
                 v \in {NoPath, DirV}, c \in BOOLEAN, x \in Contexts }
        \cup { Opts(FALSE, NoLayout, ViewsList(l), c, [k \in {"title"} |-> <<"T">>]) :
                 l \in { <<>>, <<DirV>>, <<Root, AbsD>>, <<AbsD, Root>>, <<DirV, Dot>>,
                          <<Dot, AbsD>> },
                 c \in BOOLEAN }
        \cup { WithExtras(Opts(FALSE, NoLayout, ViewsStr(NoPath), c, x)) :
                 c \in BOOLEAN, x \in Contexts }

\* The completion function: none, one that returns, or one that throws.
Callbacks == {"none", "returns", "throws"}

\* An invocation of the completion function: callback(err, html); NoVal
\* stands for a null error, and `html` is <<>> when the argument is missing.
Invocation(err, html) == [err |-> err, html |-> html]

\* What the caller holds: the promise renderView returns.  It is pending,
\* fulfilled with HTML ("ok"), fulfilled with null ("null") or rejected ("err").
Ret(st, html, err) == [st |-> st, html |-> html, err |-> err]

NoRender ==
    [st |-> "idle", path |-> NoPath, cb |-> "none",
     opts |-> Opts(FALSE, NoLayout, ViewsStr(NoPath), FALSE, Empty),
     layout |-> NoLayout, tid |-> 0, body |-> <<>>, calls |-> <<>>,
     ret |-> Ret("pending", <<>>, NoVal),
     helpers |-> Empty, partials |-> Empty, renders |-> <<>>, direct |-> FALSE]

\* path.dirname of an absolute path: the root is its own parent.
Dirname(p) ==
    IF p.segs = <<>> THEN p ELSE Path(p.abs, SubSeq(p.segs, 1, Len(p.segs) - 1))

\* Array.prototype.indexOf, counting from 1; 0 stands for -1.
IndexOf(list, x) ==
    IF \E i \in DOMAIN list : list[i] = x
    THEN CHOOSE i \in DOMAIN list : list[i] = x /\ \A j \in 1..(i - 1) : list[j] # x
    ELSE 0

\* `views.map((v) => path.resolve(v))`.
AbsoluteViews(list) == [i \in DOMAIN list |-> Resolve(list[i])]

RECURSIVE ClosestParent(_, _, _)
\* The loop of _resolveViewsPath: from `dir` upwards, the entry of `views`
\* whose resolved path is the directory; NoPath stands for null.
ClosestParent(list, lastDir, dir) ==
    IF dir = lastDir THEN NoPath
    ELSE IF IndexOf(AbsoluteViews(list), dir) > 0
    THEN list[IndexOf(AbsoluteViews(list), dir)]
    ELSE ClosestParent(list, dir, Dirname(dir))

\* A resolution that takes the first entry of the array that lies above the
\* file, however far above.
FirstParent(views, file) ==
    LET above(p) == \E n \in 0..(Len(Resolve(file).segs) - 1) :
                        Resolve(p).segs = SubSeq(Resolve(file).segs, 1, n)
        hits == {i \in DOMAIN views.list : above(views.list[i])}
    IN  IF ~views.arr THEN views.str
        ELSE IF hits = {} THEN NoPath
        ELSE views.list[CHOOSE i \in hits : \A j \in hits : i <= j]

\* _resolveViewsPath(views, file): a setting that is not an array is
\* returned as it is.
ResolveViewsPath(views, file) ==
    IF ~views.arr THEN views.str
    ELSE ClosestParent(views.list, Resolve(file), Dirname(Resolve(file)))

\* A variant in which the directories are derived only while the instance
\* has none.
DeriveDirsOnce(i, viewsPath) ==
    IF viewsPath = NoPath \/ i.layoutsDir # NoPath THEN i
    ELSE [i EXCEPT
            !.partialsDir = IF i.config.partialsDir.defined THEN i.config.partialsDir
                            ELSE Config(TRUE, <<DescStr(Join(viewsPath, <<"partials">>))>>),
            !.layoutsDir = Join(viewsPath, <<"layouts">>)]

\* The directories renderView derives from the views root, when there is one.
DeriveDirs(i, viewsPath) ==
    IF viewsPath = NoPath THEN i
    ELSE [i EXCEPT
            !.partialsDir = IF i.config.partialsDir.defined THEN i.config.partialsDir
                            ELSE Config(TRUE, <<DescStr(Join(viewsPath, <<"partials">>))>>),
            !.layoutsDir = IF i.config.layoutsDir # NoPath THEN i.config.layoutsDir
                           ELSE Join(viewsPath, <<"layouts">>)]

\* A choice of layout in which a falsy option falls back on the default.
LayoutOrDefault(o, i) ==
    IF o.given /\ o.layout # NoLayout THEN o.layout ELSE i.defaultLayout

\* `'layout' in options ? options.layout : this.defaultLayout`.
EffectiveLayout(o, i) == IF o.given THEN o.layout ELSE i.defaultLayout

\* path.extname(layoutPath) is not empty: the name ends with a piece that
\* begins with a dot, and is not that piece alone.
HasExt(name) == Len(name) > 1 /\ name[Len(name)] \in {".hbs", ".html"}

\* _resolveLayoutPath(layoutPath): NoPath stands for null.
ResolveLayoutPath(layout, layoutsDir) ==
    IF layout = NoLayout THEN NoPath
    ELSE Resolve(Join(layoutsDir, IF HasExt(layout) THEN layout ELSE layout \o ExtName))

\* An error thrown outside the try block: the async function rejects the
\* promise it returns, and the completion function is not called.
FailByRejection(r, err) == [r EXCEPT !.st = "done", !.ret = Ret("err", <<>>, err)]

\* `callback(err)` in the catch block.  Without a completion function the
\* call rejects its promise; a completion function that throws makes the
\* call itself fail.
Fail(r, err) ==
    IF r.cb = "none" THEN [r EXCEPT !.st = "done", !.ret = Ret("err", <<>>, err)]
    ELSE [r EXCEPT !.st = "done",
                   !.calls = Append(@, Invocation(err, <<>>)),
                   !.ret = IF r.cb = "throws"
                           THEN Ret("err", <<>>, ErrVal("callbackError"))
                           ELSE Ret("null", <<>>, NoVal)]

\* `callback(null, html)` at the end of the try block: what a completion
\* function throws there is caught, and the function is called with it.
Succeed(r, html) ==
    IF r.cb = "none" THEN [r EXCEPT !.st = "done", !.ret = Ret("ok", html, NoVal)]
    ELSE IF r.cb = "returns"
    THEN [r EXCEPT !.st = "done",
                   !.calls = Append(@, Invocation(NoVal, html)),
                   !.ret = Ret("null", <<>>, NoVal)]
    ELSE Fail([r EXCEPT !.calls = Append(@, Invocation(NoVal, html))],
              ErrVal("callbackError"))

\* The caches as TemplateCall takes them.
Caches == [ops |-> fsOps, m |-> fsCache, tpls |-> tplOps, co |-> compiled,
           tid |-> 0, tasks |-> <<>>]

\* A variant in which the nested render finds no partials in its options
\* and calls getPartials itself.
StartRenderListsAgain(call, key, cache, r) ==
    LET c == SettleJoined(TemplateCall(key, cache, Caches))
        g == GetPartialsFrom(inst.partialsDir, cache, c.ops, c.m)
    IN  /\ fsOps' = g.ops
        /\ fsCache' = g.m
        /\ tplOps' = c.tpls
        /\ compiled' = c.co
        /\ call' = [r EXCEPT !.tid = c.tid]

\* render(filePath, ...) up to its await: getTemplate(filePath, {cache}); the
\* partials are in the options, so getPartials is not called.  `call` is the
\* variable of the renderView call that renders, and `r` is that call once
\* the template settles.
StartRender(call, key, cache, r) ==
    LET c == SettleJoined(TemplateCall(key, cache, Caches))
    IN  /\ fsOps' = c.ops
        /\ fsCache' = c.m
        /\ tplOps' = c.tpls
        /\ compiled' = c.co
        /\ call' = [r EXCEPT !.tid = c.tid]

\* A variant in which getPartials reads this.partialsDir as it was before
\* the call assigned it.
RenderViewReadsBefore(call, g, p, o, cb) ==
    LET i == DeriveDirs(inst, ResolveViewsPath(o.views, p))
        c == GetPartialsFrom(inst.partialsDir, o.cache, fsOps, fsCache)
        d == SettleJoined(ResumeSettled(o.cache,
                              [Caches EXCEPT !.ops = c.ops, !.m = c.m, !.tasks = c.call.tasks]))
    IN  /\ call.st = "idle"
        /\ g.st = "idle"
        /\ inst' = i
        /\ fsOps' = d.ops
        /\ fsCache' = d.m
        /\ tplOps' = d.tpls
        /\ compiled' = d.co
        /\ g' = Outcome(c.call, [k \in DOMAIN d.tasks |-> Progress(d.tasks[k], d.tpls)])
        /\ call' = [NoRender EXCEPT !.st = "partials", !.path = p, !.cb = cb, !.opts = o,
                                    !.helpers = Merge(inst.helpers, o.helpers)]
        /\ last' = Did("getPartials", FALSE)
        /\ UNCHANGED <<disk, precompiled, reqs>>

\* renderView(viewPath, options, callback) up to `await this.getPartials`,
\* of the call kept in `call`, whose getPartials call is kept in `g`.  The
\* directories are assigned to the instance.  What the call finds settled in
\* the caches it goes on with before anything else completes.
RenderViewOf(call, g, p, o, cb) ==
    LET i == DeriveDirs(inst, ResolveViewsPath(o.views, p))
        c == GetPartialsFrom(i.partialsDir, o.cache, fsOps, fsCache)
        d == SettleJoined(ResumeSettled(o.cache,
                              [Caches EXCEPT !.ops = c.ops, !.m = c.m, !.tasks = c.call.tasks]))
    IN  /\ call.st = "idle"
        /\ g.st = "idle"
        /\ inst' = i
        /\ fsOps' = d.ops
        /\ fsCache' = d.m
        /\ tplOps' = d.tpls
        /\ compiled' = d.co
        /\ g' = Outcome(c.call, [k \in DOMAIN d.tasks |-> Progress(d.tasks[k], d.tpls)])
        /\ call' = [NoRender EXCEPT !.st = "partials", !.path = p, !.cb = cb, !.opts = o,
                                    !.helpers = Merge(inst.helpers, o.helpers)]
        /\ last' = Did("getPartials", FALSE)
        /\ UNCHANGED <<disk, precompiled, reqs>>

\* getPartials has settled.  Its failure is thrown outside the try block: the
\* promise renderView returns is rejected.  Otherwise the layout is chosen
\* and the view render starts.
ResumeAfterPartialsOf(call, g) ==
    /\ call.st = "partials"
    /\ g.st \in {"ok", "err"}
    /\ IF g.st = "err"
       THEN /\ call' = FailByRejection(call, g.err)
            /\ UNCHANGED <<fsOps, fsCache, tplOps, compiled>>
       ELSE StartRender(call, Resolve(call.path), call.opts.cache,
                        [call EXCEPT !.st = "view", !.layout = EffectiveLayout(call.opts, inst),
                                     !.partials = Merge(g.val, call.opts.partials)])
    /\ UNCHANGED <<disk, precompiled, reqs, last, g, inst>>

\* The template the call `r` waits on has settled: the error, or the HTML.
Rendered(r, context) ==
    IF tplOps[r.tid].st = "err" THEN Out(tplOps[r.tid].val, <<>>)
    ELSE RenderTemplate(tplOps[r.tid].val, context)

\* `renderOptions` as render reads it: the options of the call, with the
\* merged helpers in the place of its helpers.
RenderOptions(r) == [r.opts EXCEPT !.helpers = r.helpers]

\* The call `r` after a render of `filePath` whose template has settled: a
\* template that was obtained is run, and `renders` keeps what it was run with.
AfterRender(r, filePath, context, o, partials) ==
    IF tplOps[r.tid].st = "err" THEN r
    ELSE [r EXCEPT !.renders = Append(@, RenderArgs(filePath, context, o, partials, inst))]

\* A variant in which the layout render starts when the view render has
\* settled, whether it failed or not.
LayoutStartsAnyway(call, g) ==
    LET out == Rendered(call, call.opts.context)
        layoutPath == ResolveLayoutPath(call.layout, inst.layoutsDir)
        r == AfterRender(call, call.path, call.opts.context, RenderOptions(call),
                         call.partials)
    IN  /\ call.st = "view"
        /\ Settled(tplOps[call.tid])
        /\ IF layoutPath = NoPath
           THEN /\ call' = IF out.err # NoVal THEN Fail(r, out.err) ELSE Succeed(r, out.html)
                /\ UNCHANGED <<fsOps, fsCache, tplOps, compiled>>
           ELSE StartRender(call, layoutPath, call.opts.cache,
                            [r EXCEPT !.st = "layout", !.body = out.html])
        /\ UNCHANGED <<disk, precompiled, reqs, last, g, inst>>

\* The view render has settled: a failure goes to the catch block; with a
\* layout the layout render starts, and without one the HTML is delivered.
\* The layout path is resolved against this.layoutsDir as it is now.
ResumeAfterViewOf(call, g) ==
    LET out == Rendered(call, call.opts.context)
        layoutPath == ResolveLayoutPath(call.layout, inst.layoutsDir)
        r == AfterRender(call, call.path, call.opts.context, RenderOptions(call),
                         call.partials)
    IN  /\ call.st = "view"
        /\ Settled(tplOps[call.tid])
        /\ IF out.err # NoVal
           THEN call' = Fail(r, out.err) /\ UNCHANGED <<fsOps, fsCache, tplOps, compiled>>
           ELSE IF layoutPath = NoPath
           THEN call' = Succeed(r, out.html) /\ UNCHANGED <<fsOps, fsCache, tplOps, compiled>>
           ELSE StartRender(call, layoutPath, call.opts.cache,
                            [r EXCEPT !.st = "layout", !.body = out.html])
        /\ UNCHANGED <<disk, precompiled, reqs, last, g, inst>>

\* A variant in which the render of the layout applies the layout to what
\* it rendered, once more.
LayoutRendersLayout(call, g) ==
    LET context == WithBody(call.opts.context, call.body)
        out == Rendered(call, context)
        r == AfterRender(call, tplOps[call.tid].key, context, RenderOptions(call),
                         call.partials)
    IN  /\ call.st = "layout"
        /\ Settled(tplOps[call.tid])
        /\ IF out.err # NoVal
           THEN call' = Fail(r, out.err) /\ UNCHANGED <<fsOps, fsCache, tplOps, compiled>>
           ELSE IF Len(r.renders) >= 3
           THEN call' = Succeed(r, out.html) /\ UNCHANGED <<fsOps, fsCache, tplOps, compiled>>
           ELSE StartRender(call, tplOps[call.tid].key, call.opts.cache,
                            [r EXCEPT !.body = out.html])
        /\ UNCHANGED <<disk, precompiled, reqs, last, g, inst>>

\* The layout render has settled.
ResumeAfterLayoutOf(call, g) ==
    LET context == WithBody(call.opts.context, call.body)
        out == Rendered(call, context)
        r == AfterRender(call, tplOps[call.tid].key, context, RenderOptions(call),
                         call.partials)
    IN  /\ call.st = "layout"
        /\ Settled(tplOps[call.tid])
        /\ call' = IF out.err # NoVal THEN Fail(r, out.err) ELSE Succeed(r, out.html)
        /\ UNCHANGED <<disk, fsOps, fsCache, tplOps, compiled, precompiled, reqs,
                       last, g, inst>>

\* The renderView call of the one-call behaviours, and its continuations.
RenderView(p, o, cb) == RenderViewOf(rv, gp, p, o, cb) /\ UNCHANGED <<gp2, rv2>>

ResumeAfterPartials == ResumeAfterPartialsOf(rv, gp) /\ UNCHANGED <<gp2, rv2>>

ResumeAfterView == ResumeAfterViewOf(rv, gp) /\ UNCHANGED <<gp2, rv2>>

ResumeAfterLayout == ResumeAfterLayoutOf(rv, gp) /\ UNCHANGED <<gp2, rv2>>

\* A second renderView call on the same instance, made while the first is
\* in flight, and its continuations.
RenderView2(p, o, cb) ==
    /\ rv.st \notin {"idle", "done"}
    /\ RenderViewOf(rv2, gp2, p, o, cb)
    /\ UNCHANGED <<gp, rv>>

ResumeAfterPartials2 == ResumeAfterPartialsOf(rv2, gp2) /\ UNCHANGED <<gp, rv>>

ResumeAfterView2 == ResumeAfterViewOf(rv2, gp2) /\ UNCHANGED <<gp, rv>>

ResumeAfterLayout2 == ResumeAfterLayoutOf(rv2, gp2) /\ UNCHANGED <<gp, rv>>

\* --------------------------------------------------------------------- render
\* The options of the render calls made on the instance itself.
RenderOptsSet ==
    { Opts(g, IF g THEN LayoutMain ELSE NoLayout, ViewsStr(NoPath), c, x) :
        g \in BOOLEAN, c \in BOOLEAN, x \in Contexts }
        \cup { WithExtras(Opts(FALSE, NoLayout, ViewsStr(NoPath), c, [k \in {"title"} |-> <<"T">>])) :
                 c \in BOOLEAN }

\* render(filePath, context, options) up to its await: getTemplate, then
\* getPartials unless the options bring partials.  The context is kept in
\* the options of the call.
Render(p, o) ==
    LET c == TemplateCall(Resolve(p), o.cache, Caches)
        g == GetPartialsFrom(inst.partialsDir, o.cache, c.ops, c.m)
    IN  /\ rv.st = "idle"
        /\ gp.st = "idle"
        /\ fsOps' = (IF o.hasPartials THEN c.ops ELSE g.ops)
        /\ fsCache' = (IF o.hasPartials THEN c.m ELSE g.m)
        /\ tplOps' = c.tpls
        /\ compiled' = c.co
        /\ gp' = (IF o.hasPartials THEN gp ELSE g.call)
        /\ rv' = [NoRender EXCEPT !.st = "render", !.direct = TRUE, !.path = p,
                                  !.opts = o, !.tid = c.tid]
        /\ last' = Did("render", FALSE)
        /\ UNCHANGED <<disk, precompiled, reqs, gp2, rv2, inst>>

\* `await Promise.all([...])` of render has settled: with the first failure,
\* which rejects the call, or with the template and the partials, and then
\* the template is run; what it throws rejects the call as well.
ResumeRender ==
    LET tpl      == tplOps[rv.tid]
        own      == ~rv.opts.hasPartials
        errors   == (IF tpl.st = "err" THEN {tpl.val} ELSE {})
                        \cup (IF own /\ gp.st = "err" THEN {gp.err} ELSE {})
        partials == IF own THEN gp.val ELSE rv.opts.partials
        out      == RenderTemplate(tpl.val, rv.opts.context)
        r        == AfterRender(rv, rv.path, rv.opts.context, rv.opts, partials)
    IN  /\ rv.st = "render"
        /\ IF errors # {}
           THEN \E err \in errors :
                    rv' = [rv EXCEPT !.st = "done", !.ret = Ret("err", <<>>, err)]
           ELSE /\ tpl.st = "ok"
                /\ own => gp.st = "ok"
                /\ rv' = [r EXCEPT !.st = "done",
                                   !.ret = IF out.err # NoVal THEN Ret("err", <<>>, out.err)
                                           ELSE Ret("ok", out.html, NoVal)]
        /\ UNCHANGED <<disk, fsOps, fsCache, tplOps, compiled, precompiled, reqs,
                       last, gp, gp2, rv2, inst>>

\* --------------------------------------------------------------- environment
\* The template file is written, rewritten or removed.
ChangeFile(c) ==
    /\ c # disk
    /\ disk' = c
    /\ UNCHANGED <<fsOps, fsCache, tplOps, compiled, precompiled, reqs, last>>

\* ------------------------------------------------------------- specification
Init ==
    /\ disk \in Disks
    /\ fsOps = <<>>
    /\ fsCache = Empty
    /\ tplOps = <<>>
    /\ compiled = Empty
    /\ precompiled = Empty
    /\ reqs = {}
    /\ last = Other
    /\ gp = NoCall
    /\ rv = NoRender
    /\ gp2 = NoCall
    /\ rv2 = NoRender
    /\ inst = NewInstance(DefaultConfig)

DoReadFile ==
    /\ \E p \in RawFiles, cache \in BOOLEAN : ReadFile(p, cache)
    /\ UNCHANGED <<gp, rv, gp2, rv2, inst>>

DoListFiles ==
    /\ \E d \in RawDirs, cache \in BOOLEAN, t \in BOOLEAN : ListFiles(d, cache, t)
    /\ UNCHANGED <<gp, rv, gp2, rv2, inst>>

DoGetTemplate ==
    /\ \E p \in RawFiles, cache \in BOOLEAN, pre \in BOOLEAN : GetTemplate(p, cache, pre)
    /\ UNCHANGED <<gp, rv, gp2, rv2, inst>>

DoResetCache ==
    /\ \E sel \in Selectors : ResetCache(sel)
    /\ UNCHANGED <<gp, rv, gp2, rv2, inst>>

DoFsComplete ==
    /\ \E id \in DOMAIN fsOps, fail \in BOOLEAN : FsComplete(id, fail)
    /\ UNCHANGED <<gp, rv, gp2, rv2, inst>>

DoTemplateSettle ==
    /\ \E t \in DOMAIN tplOps : TemplateSettle(t)
    /\ UNCHANGED <<gp, rv, gp2, rv2, inst>>

DoChangeFile ==
    /\ \E c \in Disks : ChangeFile(c)
    /\ UNCHANGED <<gp, rv, gp2, rv2, inst>>

\* The File Cache, driven through _getFile and _getDir.
NextFileCache ==
    \/ DoReadFile
    \/ DoListFiles
    \/ DoResetCache
    \/ DoFsComplete
    \/ DoChangeFile

SpecFileCache == Init /\ [][NextFileCache]_vars

\* The Template Store on top of the File Cache, driven through getTemplate.
\* What getTemplate does to the File Cache is what _getFile does to it.
NextTemplates ==
    \/ DoGetTemplate
    \/ DoResetCache
    \/ DoFsComplete
    \/ DoTemplateSettle
    \/ DoChangeFile

SpecTemplates == Init /\ [][NextTemplates]_vars

DoGetPartials ==
    /\ \E config \in Configs, cache \in BOOLEAN : GetPartials(config, cache)
    /\ UNCHANGED <<rv, gp2, rv2, inst>>

DoPartialsListed ==
    /\ \E id \in DOMAIN fsOps, fail \in BOOLEAN : PartialsListed(id, fail)
    /\ UNCHANGED <<rv, rv2, inst>>

DoPartialsFileRead ==
    /\ \E id \in DOMAIN fsOps, fail \in BOOLEAN : PartialsFileRead(id, fail)
    /\ UNCHANGED <<rv, rv2, inst>>

\* One getPartials call on an instance with some partialsDir, and the
\* completions of the file-system operations it starts.
NextPartials ==
    \/ DoGetPartials
    \/ DoPartialsListed
    \/ DoPartialsFileRead

SpecPartials == Init /\ [][NextPartials]_vars

\* An instance built from some configuration, with nothing cached or called.
InitRenderView ==
    /\ disk \in Disks
    /\ fsOps = <<>>
    /\ fsCache = Empty
    /\ tplOps = <<>>
    /\ compiled = Empty
    /\ precompiled = Empty
    /\ reqs = {}
    /\ last = Other
    /\ gp = NoCall
    /\ rv = NoRender
    /\ gp2 = NoCall
    /\ rv2 = NoRender
    /\ inst \in {NewInstance(c) : c \in InstConfigs}

DoRenderView == \E o \in OptsSet, cb \in Callbacks : RenderView(AbsA, o, cb)

\* One renderView call of the view a.hbs, the completions of the file-system
\* operations it starts, and its continuations.  A continuation is a step of
\* its own, taken once the promise it waits on has settled.
NextRenderView ==
    \/ DoRenderView
    \/ DoPartialsListed
    \/ DoPartialsFileRead
    \/ ResumeAfterPartials
    \/ ResumeAfterView
    \/ ResumeAfterLayout

SpecRenderView == InitRenderView /\ [][NextRenderView]_vars

DoRender == \E p \in {AbsA, AbsB}, o \in RenderOptsSet : Render(p, o)

\* One render call of a view made on the instance itself, the completions
\* of the file-system operations it starts, and its continuation.
NextRender ==
    \/ DoRender
    \/ DoPartialsListed
    \/ DoPartialsFileRead
    \/ ResumeRender

SpecRender == InitRenderView /\ [][NextRender]_vars

\* The options of two renderView calls that are in flight together: a views
\* root each, and the default layout.
TwoViewsOpts ==
    { Opts(FALSE, NoLayout, ViewsStr(v), c, [k \in {"title"} |-> <<"T">>]) :
        v \in {DirV, AbsD, Dot}, c \in BOOLEAN }

\* An instance with no partialsDir configured, and with or without a
\* layoutsDir, with nothing cached or called.
InitTwoViews ==
    /\ disk \in Disks
    /\ fsOps = <<>>
    /\ fsCache = Empty
    /\ tplOps = <<>>
    /\ compiled = Empty
    /\ precompiled = Empty
    /\ reqs = {}
    /\ last = Other
    /\ gp = NoCall
    /\ rv = NoRender
    /\ gp2 = NoCall
    /\ rv2 = NoRender
    /\ inst \in {NewInstance(c) :
                    c \in {DefaultConfig, InstConfig(DirL, Config(FALSE, <<>>), LayoutMain)}}

\* Two renderView calls on one instance, the second made while the first is
\* in flight and possibly of the file layouts/main.hbs, which is a layout,
\* the completions of the file-system operations they start, and the
\* continuations of each, in any order.
NextTwoViews ==
    \/ \E o \in TwoViewsOpts : RenderView(AbsA, o, "none")
    \/ \E p \in {AbsA, AbsB, Join(DirL, <<"main", ".hbs">>)}, o \in TwoViewsOpts :
            RenderView2(p, o, "none")
    \/ DoPartialsListed
    \/ DoPartialsFileRead
    \/ ResumeAfterPartials
    \/ ResumeAfterView
    \/ ResumeAfterLayout
    \/ ResumeAfterPartials2
    \/ ResumeAfterView2
    \/ ResumeAfterLayout2

SpecTwoViews == InitTwoViews /\ [][NextTwoViews]_vars

\* Two calls on one instance, where the first may also be a render call made
\* on the instance itself, and where every file-system operation that was
\* started completes or fails and every continuation whose promise has
\* settled is run: the weak fairness of the completions and the continuations
\* taken together.  WF_vars(A) is []<>~ENABLED <<A>>_vars \/ []<><<A>>_vars,
\* and it is written so, with the condition under which one of them is
\* enabled spelled out: an operation is pending, or a call waits on what has
\* settled.
SpecCallsFair ==
    /\ InitTwoViews
    /\ [][NextTwoViews \/ DoRender \/ ResumeRender]_vars
    /\ \/ []<>(/\ \A id \in DOMAIN fsOps : fsOps[id].st # "pending"
               /\ ~(rv.st = "partials" /\ gp.st \in {"ok", "err"})
               /\ ~(rv2.st = "partials" /\ gp2.st \in {"ok", "err"})
               /\ ~(rv.st \in {"view", "layout"} /\ Settled(tplOps[rv.tid]))
               /\ ~(rv2.st \in {"view", "layout"} /\ Settled(tplOps[rv2.tid]))
               /\ ~(/\ rv.st = "render"
                    /\ \/ tplOps[rv.tid].st = "err"
                       \/ ~rv.opts.hasPartials /\ gp.st = "err"
                       \/ tplOps[rv.tid].st = "ok" /\ (rv.opts.hasPartials \/ gp.st = "ok")))
       \/ []<><<\/ DoPartialsListed \/ DoPartialsFileRead
                \/ ResumeAfterPartials \/ ResumeAfterView \/ ResumeAfterLayout
                \/ ResumeAfterPartials2 \/ ResumeAfterView2 \/ ResumeAfterLayout2
                \/ ResumeRender>>_vars

\* ===================================================================== claims

\* C1: two cache-enabled reads of the same resolved path that wait at the same
\* time, with no resetCache since the first was made, wait on one and the same
\* file-system read (and so receive the same result).
C1_ConcurrentReadsShareOneRead ==
    \A r1, r2 \in reqs :
        (r1.kind = "file" /\ r2.kind = "file" /\ r1.key = r2.key) => r1.op = r2.op

\* C2: the cache-enabled getTemplate calls for one path and one representation
\* that wait at the same time all wait on one and the same compilation.
C2_ConcurrentTemplatesShareOneCompilation ==
    \A r1, r2 \in reqs :
        (r1.kind = "tpl" /\ r2.kind = "tpl" /\ r1.key = r2.key /\ r1.pre = r2.pre)
            => r1.op = r2.op

\* C3: when a read or a listing fails, the calls chained on it fail with that
\* error, and once it has settled neither the File Cache nor the compiled /
\* precompiled cache holds an entry for the path; no cache ever holds a failed
\* promise, and a cache-enabled request that finds no entry issues a new
\* file-system operation.
C3_FailureLeavesNoEntry ==
    /\ [](/\ \A k \in DOMAIN fsCache : fsOps[fsCache[k]].st \in {"pending", "ok"}
          /\ \A k \in DOMAIN compiled : tplOps[compiled[k]].st \in {"pending", "ok"}
          /\ \A k \in DOMAIN precompiled : tplOps[precompiled[k]].st \in {"pending", "ok"})
    /\ [][\A id \in DOMAIN fsOps, fail \in BOOLEAN :
            (fsOps[id].st = "pending" /\ fsOps'[id].st = "err" /\ FsComplete(id, fail)) =>
                /\ ~Has(fsCache', fsOps[id].key)
                /\ \A t \in DOMAIN tplOps :
                      (tplOps[t].st = "pending" /\ tplOps[t].dep = id) =>
                          /\ tplOps'[t].st = "err"
                          /\ tplOps'[t].val = fsOps'[id].val
                          /\ ~Has(IF tplOps[t].pre THEN precompiled' ELSE compiled',
                                  tplOps[t].key)]_vars
    /\ [][/\ \A p \in RawFiles, pre \in BOOLEAN :
                (/\ last' = Other
                 /\ ~Has(fsCache, Resolve(p))
                 /\ ~Has(IF pre THEN precompiled ELSE compiled, Resolve(p))
                 /\ GetTemplate(p, TRUE, pre)) =>
                    /\ Len(fsOps') = Len(fsOps) + 1
                    /\ fsOps'[Len(fsOps')] = FsOp(Resolve(p), "file")
          /\ \A p \in RawFiles :
                (last' = Other /\ ~Has(fsCache, Resolve(p)) /\ ReadFile(p, TRUE)) =>
                    /\ Len(fsOps') = Len(fsOps) + 1
                    /\ fsOps'[Len(fsOps')] = FsOp(Resolve(p), "file")
          /\ \A d \in RawDirs :
                (last' = Other /\ ~Has(fsCache, Resolve(d)) /\ ListFiles(d, TRUE, FALSE)) =>
                    /\ Len(fsOps') = Len(fsOps) + 1
                    /\ fsOps'[Len(fsOps')] = FsOp(Resolve(d), "dir")]_vars

\* A read failed and took the getTemplate call chained on it down with the read
\* error; a later cache-enabled getTemplate call for the path has issued a new
\* read and a new compilation, which are what the caches now hold.
C3_Witness ==
    \E i, j \in DOMAIN fsOps, t \in DOMAIN tplOps :
        /\ i < j
        /\ fsOps[i].st = "err" /\ fsOps[i].key = KeyA
        /\ tplOps[t].dep = i /\ tplOps[t].st = "err" /\ tplOps[t].val = ErrVal("readError")
        /\ fsOps[j].key = KeyA /\ fsOps[j].st = "pending"
        /\ Has(fsCache, KeyA) /\ fsCache[KeyA] = j
        /\ \E r \in reqs :
              /\ r.kind = "tpl" /\ r.owner /\ r.op # t
              /\ r.pre = tplOps[t].pre /\ tplOps[r.op].dep = j
              /\ LET tc == IF r.pre THEN precompiled ELSE compiled
                 IN  Has(tc, KeyA) /\ tc[KeyA] = r.op

\* C4: a readFile or listFiles call with cache = false starts a new file-system
\* operation, whether or not the File Cache holds an entry for the path.
C4_UncachedCallReadsAfresh ==
    [][/\ \A p \in RawFiles :
             ReadFile(p, FALSE) =>
                 /\ Len(fsOps') = Len(fsOps) + 1
                 /\ fsOps'[Len(fsOps')] = FsOp(Resolve(p), "file")
       /\ \A d \in RawDirs, t \in BOOLEAN :
             ListFiles(d, FALSE, t) =>
                 /\ Len(fsOps') = Len(fsOps) + 1
                 /\ fsOps'[Len(fsOps')].key = Resolve(d)
                 /\ fsOps'[Len(fsOps')].kind = "dir"]_vars

\* The latest call had cache = false and found an entry for its path, whose
\* promise was pending or fulfilled; the call's own operation is the newest.
C4_Witness ==
    /\ last = Did("uncached", TRUE)
    /\ Len(fsOps) >= 2
    /\ \E i \in 1..(Len(fsOps) - 1) :
          /\ fsOps[i].key = fsOps[Len(fsOps)].key
          /\ fsOps[i].st \in {"pending", "ok"}

\* C5: a readFile or listFiles call with cache = false leaves the keys and the
\* entries of the File Cache as they were.
C5_UncachedCallLeavesCache ==
    [][/\ \A p \in RawFiles : ReadFile(p, FALSE) => fsCache' = fsCache
       /\ \A d \in RawDirs : ListFiles(d, FALSE, FALSE) => fsCache' = fsCache]_vars

\* C6: after resetCache() without a selector, and until the next call, the
\* File Cache is empty.
C6_ResetAllEmptiesFileCache == (last.act = "all") => (DOMAIN fsCache = {})

\* resetCache() has just removed the entries of two paths.
C6_Witness ==
    /\ last = Did("all", TRUE)
    /\ fsCache = Empty
    /\ Len(fsOps) = 2
    /\ fsOps[1].key # fsOps[2].key
    /\ \A i \in DOMAIN fsOps : fsOps[i].st \in {"pending", "ok"}

\* C7: resetCache with a string, a list or a predicate removes the keys the
\* selector names, taken as written, and leaves every other entry as it was;
\* naming a key that is not cached changes nothing.
C7_SelectiveResetRemovesExactlySelected ==
    [][\A sel \in Selectors \ {SelAll} :
          ResetCache(sel) =>
              LET chosen(k) == IF sel.t = "str" THEN k = sel.p
                               ELSE IF sel.t = "list" THEN k \in sel.ps
                               ELSE k \in sel.f
              IN  /\ DOMAIN fsCache' = {k \in DOMAIN fsCache : ~chosen(k)}
                  /\ \A k \in DOMAIN fsCache' : fsCache'[k] = fsCache[k]]_vars

\* A resetCache with a list that names two cached keys has removed both.
C7_Witness ==
    /\ last = Did("list", TRUE)
    /\ fsCache = Empty
    /\ Len(fsOps) = 2
    /\ fsOps[1].key # fsOps[2].key
    /\ \A i \in DOMAIN fsOps : fsOps[i].st \in {"pending", "ok"}

\* C8: resetCache(q) and resetCache([q]) remove the entry of the path q
\* resolves to, for an absolute and for a relative q alike.
C8_ResetResolvesItsPaths ==
    [][\A q \in RawPaths :
          (ResetCache(SelStr(q)) \/ ResetCache(SelList({q})))
              => ~Has(fsCache', Resolve(q))]_vars

\* C9: resetCache, with any selector, leaves the compiled and the precompiled
\* cache and the promises they hold as they were.
C9_ResetKeepsTemplateCaches ==
    [][\A sel \in Selectors :
          (last'.act = sel.t /\ ResetCache(sel)) =>
              /\ compiled' = compiled
              /\ precompiled' = precompiled
              /\ tplOps' = tplOps]_vars

\* A resetCache has removed the File Cache entry of a path that both template
\* caches still hold.
C9_Witness ==
    /\ last.act \in {"all", "str", "list", "pred"}
    /\ last.had
    /\ ~Has(fsCache, KeyA)
    /\ Has(compiled, KeyA)
    /\ Has(precompiled, KeyA)

\* C10: the first call after resetCache(), when it is a cache-enabled read,
\* misses the File Cache and starts a new read, which the cache then holds;
\* a read that succeeds yields the text the file has when the read completes.
C10_ReadAfterResetIsFresh ==
    /\ [][\A p \in RawFiles :
             (last.act = "all" /\ ReadFile(p, TRUE)) =>
                 /\ Len(fsOps') = Len(fsOps) + 1
                 /\ fsOps'[Len(fsOps')] = FsOp(Resolve(p), "file")
                 /\ Has(fsCache', Resolve(p))
                 /\ fsCache'[Resolve(p)] = Len(fsOps')]_vars
    /\ [][\A id \in DOMAIN fsOps, fail \in BOOLEAN :
             (FsComplete(id, fail) /\ fsOps[id].kind = "file" /\ fsOps'[id].st = "ok")
                 => fsOps'[id].val = FileVal(disk)]_vars

\* A read of a.hbs was cached and fulfilled, the file changed, the entry was
\* reset, and a cache-enabled read has started a new read and is waiting on it.
C10_Witness ==
    /\ Len(fsOps) = 2
    /\ fsOps[1].key = KeyA /\ fsOps[1].st = "ok" /\ fsOps[1].val.text # disk
    /\ fsOps[2].key = KeyA /\ fsOps[2].st = "pending"
    /\ Has(fsCache, KeyA) /\ fsCache[KeyA] = 2
    /\ Req("file", KeyA, FALSE, 2, TRUE) \in reqs

\* C11: when two partials directories yield the same name, the merged mapping
\* holds the artifact of the one that comes later in the configured list,
\* whatever the order in which listings and reads completed: each name maps to
\* the artifact of the last entry that yields it.
C11_LaterDirectoryWins ==
    (gp.st = "ok") =>
        \A i \in DOMAIN gp.tasks :
            \A f \in DOMAIN gp.tasks[i].templates :
                LET name(t, g) == PartialName(t.desc.rename, g, t.desc.namespace)
                    n == name(gp.tasks[i], f)
                IN  (~\E j \in DOMAIN gp.tasks :
                        /\ j > i
                        /\ \E g \in DOMAIN gp.tasks[j].templates : name(gp.tasks[j], g) = n)
                    => (Has(gp.val, n) /\ gp.val[n] = gp.tasks[i].templates[f])

\* Directories pa and pb, in this order, both yield `card`; the listing of pb
\* completed first (its file was read first), and `card` is the artifact of pb.
C11_Witness ==
    /\ gp.st = "ok"
    /\ Len(gp.tasks) = 2
    /\ gp.tasks[1].desc = DescStr(DirPA)
    /\ gp.tasks[2].desc = DescStr(DirPB)
    /\ Len(fsOps) = 4
    /\ fsOps[3].key = Resolve(Join(DirPB, CardFile))
    /\ gp.val = [k \in {<<"card">>} |-> Artifact("v2", FALSE)]

\* C12: without a rename function the name of a file is its relative path
\* with the extension removed when the path ends with it, prefixed with
\* 'namespace/' exactly when the entry has a namespace; the entries
\* [{dir: pa, namespace: 'x'}, pb] yield x/card (of pa) and card (of pb).
C12_DefaultPartialName ==
    LET expected(f, ns) ==
            LET base == IF f # <<>> /\ f[Len(f)] = ".hbs"
                        THEN [k \in 1..(Len(f) - 1) |-> f[k]] ELSE f
            IN  IF ns = <<>> THEN base ELSE <<ns[1], "/">> \o base
        samples == {<<>>, <<"card">>, <<"card", ".hbs">>, <<".hbs">>,
                    <<"card", ".hbs", ".bak">>, <<"sub", "/", "card", ".hbs">>}
    IN  /\ \A f \in samples, ns \in {<<>>, <<"x">>} :
              GetTemplateName(f, ns) = expected(f, ns)
        /\ (gp.st = "ok") =>
              /\ \A i \in DOMAIN gp.tasks :
                    (gp.tasks[i].desc.rename = "none") =>
                        \A f \in DOMAIN gp.tasks[i].templates :
                            Has(gp.val, expected(f, gp.tasks[i].desc.namespace))
              /\ (/\ Len(gp.tasks) = 2
                  /\ gp.tasks[1].desc = Desc(DirPA, FALSE, Empty, <<"x">>, "none")
                  /\ gp.tasks[2].desc = DescStr(DirPB))
                     => gp.val = [k \in {<<"x", "/", "card">>, <<"card">>} |->
                                    IF k = <<"card">> THEN Artifact("v2", FALSE)
                                    ELSE Artifact("v1", FALSE)]

\* getPartials succeeded on [{dir: pa, namespace: 'x'}, pb].
C12_Witness ==
    /\ gp.st = "ok"
    /\ Len(gp.tasks) = 2
    /\ gp.tasks[1].desc = Desc(DirPA, FALSE, Empty, <<"x">>, "none")
    /\ gp.tasks[2].desc = DescStr(DirPB)
    /\ DOMAIN gp.val = {<<"x", "/", "card">>, <<"card">>}

\* C13: for an entry with a rename function the name of each of its files is
\* what the function returns for (path, namespace), and the default name of
\* the file is in the mapping only when some other file yields it.
C13_RenameOverridesDefault ==
    (gp.st = "ok") =>
        \A i \in DOMAIN gp.tasks :
            LET d == gp.tasks[i].desc
            IN  (d.rename # "none") =>
                    \A f \in DOMAIN gp.tasks[i].templates :
                        /\ Has(gp.val, Rename(d.rename, f, d.namespace))
                        /\ Has(gp.val, GetTemplateName(f, d.namespace)) =>
                              \E j \in DOMAIN gp.tasks :
                                  \E g \in DOMAIN gp.tasks[j].templates :
                                      /\ <<j, g>> # <<i, f>>
                                      /\ GetTemplateName(f, d.namespace) =
                                            IF gp.tasks[j].desc.rename # "none"
                                            THEN Rename(gp.tasks[j].desc.rename, g,
                                                        gp.tasks[j].desc.namespace)
                                            ELSE GetTemplateName(g, gp.tasks[j].desc.namespace)

\* The entry {dir: pa, namespace: 'x', rename: (path) => path} alone: card.hbs
\* keeps its extension and gets no prefix.
C13_Witness ==
    /\ gp.st = "ok"
    /\ Len(gp.tasks) = 1
    /\ gp.tasks[1].desc = Desc(DirPA, FALSE, Empty, <<"x">>, "keep")
    /\ gp.val = [k \in {CardFile} |-> Artifact("v1", FALSE)]

\* C14: getPartials on an instance without partialsDir succeeds with the empty
\* mapping, starts no file-system operation and writes to no cache.
C14_NoPartialsDirIsEmpty ==
    (gp.st # "idle" /\ ~gp.defined) =>
        /\ gp.st = "ok"
        /\ gp.val = Empty
        /\ fsOps = <<>> /\ tplOps = <<>>
        /\ fsCache = Empty /\ compiled = Empty /\ precompiled = Empty

\* getPartials was called, and has returned, on an instance without partialsDir.
C14_Witness == gp.st = "ok" /\ ~gp.defined /\ last = Did("getPartials", FALSE)

C16_SuppliedTemplatesNeedNoIO ==
    LET listed == {Resolve(gp.tasks[i].desc.dir) :
                     i \in {j \in DOMAIN gp.tasks : ~gp.tasks[j].desc.given
                                                    /\ gp.tasks[j].desc.dir # NoPath}}
    IN  /\ \A id \in DOMAIN fsOps :
              \/ fsOps[id].kind = "dir" /\ fsOps[id].key \in listed
              \/ fsOps[id].kind = "file"
                    /\ \E d \in listed : fsOps[id].key = Resolve(Join(d, CardFile))
        /\ \A i \in DOMAIN gp.tasks :
              gp.tasks[i].desc.given =>
                  /\ gp.tasks[i].st = "resolved"
                  /\ gp.tasks[i].op = 0 /\ gp.tasks[i].tpls = {}
                  /\ gp.tasks[i].templates = gp.tasks[i].desc.templates

\* The entry {dir: pa, templates, namespace: 'x'} alone: the supplied artifact
\* is in the mapping and nothing was listed or read.
C16_Witness ==
    /\ gp.st = "ok"
    /\ Len(gp.tasks) = 1
    /\ gp.tasks[1].desc = Desc(DirPA, TRUE, Supplied, <<"x">>, "none")
    /\ fsOps = <<>>
    /\ gp.val = [k \in {<<"x", "/", "card">>} |-> Artifact("supplied", FALSE)]

\* C17: when a layout is in effect the layout file is the layout name, with
\* the extension appended when the name has none, under layoutsDir; it is
\* rendered with the context plus body = the HTML of the view, and that is
\* what the call delivers: <body><p>X</p></body> for the view <p>X</p>.
C17_LayoutWrapsView ==
    LET layoutFile == IF rv.layout = LayoutMain THEN <<"main", ".hbs">> ELSE rv.layout
        viewHtml   == IF disk = "v1" THEN <<"<p>X</p>">> ELSE <<"<p>Y</p>">>
        delivered  == IF rv.cb = "none" THEN rv.ret.html ELSE rv.calls[1].html
        success    == IF rv.cb = "none" THEN rv.ret.st = "ok"
                      ELSE rv.calls # <<>> /\ rv.calls[1].err = NoVal
    IN  /\ (rv.st = "layout") =>
              /\ rv.layout # NoLayout
              /\ rv.body = viewHtml
              /\ tplOps[rv.tid].key = Resolve(Join(inst.layoutsDir, layoutFile))
        /\ (rv.st = "done" /\ rv.layout # NoLayout /\ success) =>
              /\ tplOps[rv.tid].key = Resolve(Join(inst.layoutsDir, layoutFile))
              /\ rv.body = viewHtml
              /\ delivered = <<"<body>">> \o viewHtml \o <<"</body>">>

\* The default layout 'main' under layoutsDir 'layouts' wrapped the view
\* <p>X</p> of a caller whose context has a body field of its own.
C17_Witness ==
    /\ rv.st = "done"
    /\ ~rv.opts.given
    /\ inst.defaultLayout = LayoutMain
    /\ Has(rv.opts.context, "body")
    /\ disk = "v1"
    /\ rv.cb = "none"
    /\ rv.ret = Ret("ok", <<"<body>", "<p>X</p>", "</body>">>, NoVal)

\* C18: the layout of a call is the layout option whenever the option is
\* present, a no-layout value included, and the default layout otherwise;
\* with an explicit no-layout option no layout file is read or rendered and
\* the bare HTML of the view is delivered.
C18_ExplicitLayoutOptionWins ==
    LET viewHtml  == IF disk = "v1" THEN <<"<p>X</p>">> ELSE <<"<p>Y</p>">>
        delivered == IF rv.cb = "none" THEN rv.ret.html ELSE rv.calls[1].html
        success   == IF rv.cb = "none" THEN rv.ret.st = "ok"
                     ELSE rv.calls # <<>> /\ rv.calls[1].err = NoVal
    IN  /\ (rv.st \in {"view", "layout"} \/ (rv.st = "done" /\ rv.tid # 0)) =>
              rv.layout = IF rv.opts.given THEN rv.opts.layout ELSE inst.defaultLayout
        /\ (rv.opts.given /\ rv.opts.layout = NoLayout) =>
              /\ rv.st # "layout"
              /\ \A t \in DOMAIN tplOps :
                    tplOps[t].key = Resolve(rv.path) \/ tplOps[t].key \in DOMAIN PartialFiles
              /\ \A id \in DOMAIN fsOps : fsOps[id].key \notin DOMAIN LayoutFiles
              /\ (rv.st = "done" /\ success) => delivered = viewHtml

\* A call with an explicit no-layout option on an instance whose default
\* layout is 'main' delivered the bare view.
C18_Witness ==
    /\ rv.st = "done"
    /\ rv.opts.given /\ rv.opts.layout = NoLayout
    /\ inst.defaultLayout = LayoutMain
    /\ rv.cb = "returns"
    /\ rv.calls = <<Invocation(NoVal, <<"<p>X</p>">>)>>

\* C19: a call delivers exactly one outcome: a completion function is
\* invoked exactly once, with an error or with the HTML, and without one the
\* returned promise settles; HTML is delivered only when every step succeeded.
C19_ExactlyOneOutcome ==
    (rv.st = "done") =>
        IF rv.cb = "none" THEN rv.ret.st \in {"ok", "err"}
        ELSE /\ Len(rv.calls) = 1
             /\ (rv.calls[1].err = NoVal) =>
                   /\ gp.st = "ok"
                   /\ tplOps[rv.tid].st = "ok"
                   /\ RenderTemplate(tplOps[rv.tid].val, Empty).err = NoVal

\* C20: every failure of a step reaches the caller: in the error argument of
\* the completion function when there is one, as a rejected promise otherwise.
C20_FailureReachesCaller ==
    LET failed == \/ gp.st = "err"
                  \/ rv.tid # 0 /\ tplOps[rv.tid].st = "err"
                  \/ rv.tid # 0 /\ tplOps[rv.tid].st = "ok"
                        /\ RenderTemplate(tplOps[rv.tid].val, Empty).err # NoVal
    IN  (rv.st = "done" /\ failed) =>
            IF rv.cb = "none" THEN rv.ret.st = "err"
            ELSE \E k \in DOMAIN rv.calls : rv.calls[k].err # NoVal

\* C21 as the claim states it: the views setting, a single path or a list, is
\* a list of candidates; the resolved root is the candidate that is the
\* nearest ancestor directory of the view, and layoutsDir and partialsDir are
\* derived from it where they are not configured; when no candidate is an
\* ancestor of the view, neither field is derived.
C21_RootIsNearestAncestor ==
    [][(rv.st = "idle" /\ rv'.st = "partials") =>
        LET v     == rv'.opts.views
            file  == Resolve(rv'.path).segs
            cands == IF v.arr THEN v.list
                     ELSE IF v.str = NoPath THEN <<>> ELSE <<v.str>>
            above(p) == \E n \in 0..(Len(file) - 1) : Resolve(p).segs = SubSeq(file, 1, n)
            hits  == {i \in DOMAIN cands : above(cands[i])}
            best  == CHOOSE i \in hits :
                        \A j \in hits : Len(Resolve(cands[j]).segs) <= Len(Resolve(cands[i]).segs)
        IN  IF hits = {} THEN inst' = inst
            ELSE /\ (inst.config.layoutsDir = NoPath) =>
                        Resolve(inst'.layoutsDir) = Resolve(Join(cands[best], <<"layouts">>))
                 /\ (~inst.config.partialsDir.defined) =>
                        /\ inst'.partialsDir.defined
                        /\ Len(inst'.partialsDir.dirs) = 1
                        /\ Resolve(inst'.partialsDir.dirs[1].dir)
                               = Resolve(Join(cands[best], <<"partials">>))]_vars

\* C21, amended: a views setting that is a list resolves to the entry that is
\* the nearest ancestor directory of the view, and to nothing when no entry
\* is an ancestor; a views setting that is a single path is the resolved root
\* as it is, whether or not it is an ancestor of the view.  layoutsDir and
\* partialsDir, where not configured, are derived from the resolved root and
\* are left alone when there is none.
C21_ListResolvesToNearestAncestor ==
    [][(rv.st = "idle" /\ rv'.st = "partials") =>
        LET v     == rv'.opts.views
            file  == Resolve(rv'.path).segs
            above(p) == \E n \in 0..(Len(file) - 1) : Resolve(p).segs = SubSeq(file, 1, n)
            hits  == {i \in DOMAIN v.list : above(v.list[i])}
            best  == CHOOSE i \in hits :
                        \A j \in hits : Len(Resolve(v.list[j]).segs) <= Len(Resolve(v.list[i]).segs)
            none  == IF v.arr THEN hits = {} ELSE v.str = NoPath
            root  == IF v.arr THEN v.list[best] ELSE v.str
        IN  IF none THEN inst' = inst
            ELSE /\ (inst.config.layoutsDir = NoPath) =>
                        Resolve(inst'.layoutsDir) = Resolve(Join(root, <<"layouts">>))
                 /\ (~inst.config.partialsDir.defined) =>
                        /\ inst'.partialsDir.defined
                        /\ Len(inst'.partialsDir.dirs) = 1
                        /\ Resolve(inst'.partialsDir.dirs[1].dir)
                               = Resolve(Join(root, <<"partials">>))
                 /\ (inst.config.layoutsDir # NoPath) => inst'.layoutsDir = inst.layoutsDir]_vars

\* A call with the views list ['/', '/app'] for the view /app/a.hbs on an
\* instance without configured directories: the directories are those under
\* /app, the nearer of the two ancestors, listed second.
C21_Witness ==
    /\ rv.st # "idle"
    /\ rv.opts.views = ViewsList(<<Root, AbsD>>)
    /\ inst.config.layoutsDir = NoPath
    /\ inst.layoutsDir = Join(AbsD, <<"layouts">>)
    /\ inst.partialsDir = Config(TRUE, <<DescStr(Join(AbsD, <<"partials">>))>>)

\* C22: a layoutsDir or partialsDir that the configuration supplies is never
\* changed by renderView: the field of the instance equals the configured
\* value in every state; a directory that is not configured is the one under
\* the resolved views root once a call has resolved one.
C22_ConfiguredDirsNeverChange ==
    LET root == ResolveViewsPath(rv.opts.views, rv.path)
    IN  /\ ("layoutsDir" \in inst.config.given) => inst.layoutsDir = inst.config.layoutsDir
        /\ ("partialsDir" \in inst.config.given) => inst.partialsDir = inst.config.partialsDir
        /\ (rv.st # "idle" /\ root # NoPath) =>
              /\ ("layoutsDir" \notin inst.config.given) =>
                    inst.layoutsDir = Join(root, <<"layouts">>)
              /\ ("partialsDir" \notin inst.config.given) =>
                    inst.partialsDir = Config(TRUE, <<DescStr(Join(root, <<"partials">>))>>)

\* C24: in what every render of a renderView call runs its template with,
\* the helpers and the runtime options are those of the instance and of the
\* call together, and the partials those of the partials directories and of
\* the call together, with the value of the call under every name both have;
\* the helpers render merges again are the helpers renderView merged.
C24_PerCallValueWins ==
    \A n \in DOMAIN rv.renders :
        LET e == rv.renders[n]
            merged(m, instance, call) ==
                /\ DOMAIN m = DOMAIN instance \cup DOMAIN call
                /\ \A k \in DOMAIN call : m[k] = call[k]
                /\ \A k \in DOMAIN instance \ DOMAIN call : m[k] = instance[k]
        IN  /\ merged(e.helpers, inst.helpers, rv.opts.helpers)
            /\ merged(e.runtimeOptions, inst.runtimeOptions, rv.opts.runtimeOptions)
            /\ merged(e.partials, gp.val, rv.opts.partials)
            /\ e.helpers = rv.helpers

\* A call with helpers, runtime options and partials of its own, on an
\* instance that has helpers, runtime options and two partials directories,
\* rendered the view and the layout: 'upper', 'strict' and 'card' are the
\* caller's, 'lower', 'lazy' and 'x/card' the instance's.
C24_Witness ==
    /\ rv.st = "done"
    /\ Len(rv.renders) = 2
    /\ rv.renders[2].helpers =
          [k \in {"upper", "trim", "lower"} |-> IF k = "lower" THEN "instance" ELSE "call"]
    /\ rv.renders[2].runtimeOptions =
          [k \in {"strict", "proto", "lazy"} |-> IF k = "lazy" THEN "instance" ELSE "call"]
    /\ rv.renders[2].partials =
          [k \in {<<"card">>, <<"badge">>, <<"x", "/", "card">>} |->
              IF k = <<"x", "/", "card">> THEN Artifact("v2", FALSE)
              ELSE Artifact("supplied", FALSE)]

\* C25: in every render the entry exphbs of the data channel is the file
\* path, the merged helpers, the partials and the merged runtime options of
\* that render, whatever the caller's data holds under that key, and the
\* caller's other data entries are passed on; in the layout render the body
\* field of the context is the HTML of the view, whatever body field the
\* caller's context has.
C25_ReservedKeysAreNotCallerData ==
    \A n \in DOMAIN rv.renders :
        LET e == rv.renders[n]
        IN  /\ Has(e.data, "exphbs")
            /\ e.data["exphbs"].filePath = e.filePath
            /\ e.data["exphbs"].helpers = e.helpers
            /\ e.data["exphbs"].partials = e.partials
            /\ e.data["exphbs"].runtimeOptions = e.runtimeOptions
            /\ e.filePath = (IF n = 1 THEN rv.path
                             ELSE ResolveLayoutPath(rv.layout, inst.layoutsDir))
            /\ \A k \in DOMAIN rv.opts.data \ {"exphbs"} :
                  Has(e.data, k) /\ e.data[k] = rv.opts.data[k]
            /\ (n = 2) =>
                  /\ e.context["body"] = (IF disk = "v1" THEN <<"<p>X</p>">> ELSE <<"<p>Y</p>">>)
                  /\ \A k \in DOMAIN rv.opts.context \ {"body"} :
                        e.context[k] = rv.opts.context[k]

\* A caller whose data has an entry exphbs and whose context has a body field
\* had the view <p>X</p> rendered in the default layout: the view was run
\* with its own path under exphbs, the layout with the HTML of the view as body.
C25_Witness ==
    /\ rv.st = "done"
    /\ Has(rv.opts.data, "exphbs")
    /\ Has(rv.opts.context, "body")
    /\ Len(rv.renders) = 2
    /\ rv.renders[1].data["exphbs"].filePath = AbsA
    /\ rv.renders[1].data["user"] = CallData["user"]
    /\ rv.renders[2].context["body"] = <<"<p>X</p>">>
    /\ rv.ret = Ret("ok", <<"<body>", "<p>X</p>", "</body>">>, NoVal)

\* C26: the compiled and the precompiled cache are separate: an entry of the
\* compiled cache is a compilation and an entry of the precompiled cache a
\* precompilation, each of the path it is stored under and each settling
\* with an artifact of its own kind; a waiting request waits on a promise of
\* the representation it asked for; and a getTemplate call that starts a
\* compilation leaves the precompiled cache as it is, one that starts a
\* precompilation the compiled cache.
C26_SeparateKeyspaces ==
    /\ [](/\ \A k \in DOMAIN compiled :
                ~tplOps[compiled[k]].pre /\ tplOps[compiled[k]].key = k
          /\ \A k \in DOMAIN precompiled :
                tplOps[precompiled[k]].pre /\ tplOps[precompiled[k]].key = k
          /\ \A t \in DOMAIN tplOps :
                (tplOps[t].st = "ok") =>
                    tplOps[t].val.t = (IF tplOps[t].pre THEN "spec" ELSE "fn")
          /\ \A r \in reqs : (r.kind = "tpl") => tplOps[r.op].pre = r.pre)
    /\ [][(Len(tplOps') = Len(tplOps) + 1) =>
            IF tplOps'[Len(tplOps')].pre THEN compiled' = compiled
            ELSE precompiled' = precompiled]_vars

\* Both caches hold an entry for /app/a.hbs at once: a template function in
\* the compiled cache and a specification in the precompiled cache.
C26_Witness ==
    /\ Has(compiled, KeyA) /\ Has(precompiled, KeyA)
    /\ compiled[KeyA] # precompiled[KeyA]
    /\ tplOps[compiled[KeyA]].st = "ok" /\ tplOps[compiled[KeyA]].val.t = "fn"
    /\ tplOps[precompiled[KeyA]].st = "ok" /\ tplOps[precompiled[KeyA]].val.t = "spec"

\* C28: when the file of a template was read and the compile or precompile
\* step throws on its text, the getTemplate promise fails with the compile
\* error in the step in which it settles, the calls waiting on it are
\* released, and the cache of its representation holds no entry for the path
\* after that step; no cache entry ever refers to a promise that failed to
\* compile, and a settled entry holds an artifact of a text the compiler accepts.
C28_CompileFailureEvicts ==
    /\ [](/\ \A t \in DOMAIN tplOps :
                (tplOps[t].val = ErrVal("compileError")) =>
                    /\ tplOps[t].st = "err"
                    /\ fsOps[tplOps[t].dep].st = "ok"
                    /\ \A k \in DOMAIN compiled : compiled[k] # t
                    /\ \A k \in DOMAIN precompiled : precompiled[k] # t
          /\ \A k \in DOMAIN compiled :
                (tplOps[compiled[k]].st = "ok") => WellFormed(tplOps[compiled[k]].val.text)
          /\ \A k \in DOMAIN precompiled :
                (tplOps[precompiled[k]].st = "ok") =>
                    WellFormed(tplOps[precompiled[k]].val.text))
    /\ [][\A t \in DOMAIN tplOps :
            (/\ tplOps[t].st = "pending"
             /\ tplOps'[t].st # "pending"
             /\ fsOps'[tplOps[t].dep].st = "ok"
             /\ ~WellFormed(fsOps'[tplOps[t].dep].val.text)) =>
                /\ tplOps'[t].st = "err"
                /\ tplOps'[t].val = ErrVal("compileError")
                /\ ~Has(IF tplOps[t].pre THEN precompiled' ELSE compiled', tplOps[t].key)
                /\ \A r \in reqs' : ~(r.kind = "tpl" /\ r.op = t)]_vars

\* The file was read, its text was rejected by the compiler, and the failed
\* getTemplate promise is gone from the compiled cache: the entry there is
\* the new compilation a later cache-enabled call started.
C28_Witness ==
    \E t, u \in DOMAIN tplOps :
        /\ t < u
        /\ tplOps[t].key = KeyA /\ ~tplOps[t].pre
        /\ tplOps[t].st = "err" /\ tplOps[t].val = ErrVal("compileError")
        /\ fsOps[tplOps[t].dep].st = "ok" /\ fsOps[tplOps[t].dep].val.text = "bad"
        /\ Has(compiled, KeyA) /\ compiled[KeyA] = u
        /\ tplOps[u].st = "pending"
        /\ \E r \in reqs : r.kind = "tpl" /\ r.op = u /\ r.owner

\* C27: the extension of the instance begins with '.', whether the
\* configured extension has the leading dot or not: it is the configured one,
\* with a dot put before it when it has none; and no step changes it.
C27_ExtnameBeginsWithDot ==
    /\ [](/\ inst.extname # <<>>
          /\ Head(inst.extname) = "."
          /\ inst.extname = (IF Head(inst.config.extname) = "." THEN inst.config.extname
                             ELSE <<".">> \o inst.config.extname))
    /\ [][inst'.extname = inst.extname]_vars

\* An instance configured with the extension 'hbs' has the extension '.hbs',
\* and still has it when a renderView call that derived its directories from
\* a views root has delivered.
C27_Witness ==
    /\ inst.config.extname = ExtBare
    /\ inst.extname = ExtDotted
    /\ rv.st = "done"
    /\ inst.layoutsDir # inst.config.layoutsDir

\* C29: a render call whose options name the layout 'main', on an instance
\* under whose layoutsDir that layout exists, returns the output of the
\* layout around the rendered template: <body><p>X</p></body> for <p>X</p>.
C29_RenderAppliesLayout ==
    LET layoutPath == ResolveLayoutPath(LayoutMain, inst.layoutsDir)
        text       == tplOps[rv.tid].val.text
        html       == IF text = "v2" THEN <<"<p>Y</p>">> ELSE <<"<p>X</p>">>
    IN  (/\ rv.st = "done" /\ rv.direct
         /\ rv.opts.given /\ rv.opts.layout = LayoutMain
         /\ layoutPath \in DOMAIN LayoutFiles /\ LayoutFiles[layoutPath] = "layout"
         /\ rv.ret.st = "ok") =>
            rv.ret.html = <<"<body>">> \o html \o <<"</body>">>

\* C30: the string render returns neither begins nor ends with white space,
\* and it is <p>X</p> for the source <p>X</p> with and without white space
\* around it.
C30_SurroundingWhitespaceIgnored ==
    (rv.st = "done" /\ rv.direct /\ rv.ret.st = "ok") =>
        /\ rv.ret.html # <<>> =>
              Head(rv.ret.html) # " " /\ rv.ret.html[Len(rv.ret.html)] # " "
        /\ (tplOps[rv.tid].val.text \in {"v1", "v1b"}) => rv.ret.html = <<"<p>X</p>">>

\* The view a.hbs, whose source has white space before and after <p>X</p>,
\* was rendered to <p>X</p>.
C30_Witness ==
    /\ rv.st = "done" /\ rv.direct
    /\ rv.path = AbsA
    /\ tplOps[rv.tid].val.text = "v1"
    /\ Source("v1") # Trim(Source("v1"))
    /\ rv.ret = Ret("ok", <<"<p>X</p>">>, NoVal)

\* C23: the layoutsDir renderView writes is state of the instance, which a
\* call that resumes reads as the call made last left it: on an instance with
\* no layoutsDir configured, the call that started first resolves its layout
\* file under {root}/layouts of the views root of the second call once that
\* call has been made, and under its own before.
C23_LayoutResolvedUnderLatestRoot ==
    [][(/\ rv.st = "view" /\ rv'.st = "layout"
        /\ "layoutsDir" \notin inst.config.given) =>
            LET latest == IF rv2.st = "idle" THEN rv ELSE rv2
                root   == ResolveViewsPath(latest.opts.views, latest.path)
            IN  tplOps'[rv'.tid].key =
                    ResolveLayoutPath(rv.layout, Join(root, <<"layouts">>))]_vars

\* Two calls are in flight whose views roots resolve differently, and the
\* call that started first waits on the layout file under the views root of
\* the other call, which is not the file under its own.
C23_Witness ==
    LET own   == ResolveViewsPath(rv.opts.views, rv.path)
        other == ResolveViewsPath(rv2.opts.views, rv2.path)
    IN  /\ rv.st = "layout"
        /\ rv2.st \notin {"idle", "done"}
        /\ "layoutsDir" \notin inst.config.given
        /\ Resolve(own) # Resolve(other)
        /\ tplOps[rv.tid].key = ResolveLayoutPath(rv.layout, Join(other, <<"layouts">>))
        /\ tplOps[rv.tid].key # ResolveLayoutPath(rv.layout, Join(own, <<"layouts">>))

\* C31: a renderView call (not a render call made on the instance itself)
\* invokes render at most twice: once for the view,
\* on leaving the wait for the partials, and at most once for the layout, on
\* the success of the view render; what follows the layout render is the
\* delivery, never a further render, also when the layout file is the view
\* itself.  A call that was made is done once the file-system operations it
\* waits on have completed or failed.
C31_AtMostTwoRendersThenDone ==
    /\ [][\A i \in 1..2 :
            LET c == <<rv, rv2>>[i]
                d == <<rv', rv2'>>[i]
            IN  (d # c /\ ~d.direct) =>
                  /\ <<c.st, d.st>> \in { <<"idle", "partials">>, <<"partials", "view">>,
                                          <<"partials", "done">>, <<"view", "layout">>,
                                          <<"view", "done">>, <<"layout", "done">> }
                  /\ (d.tid # c.tid) => d.st \in {"view", "layout"}
                  /\ (d.renders # c.renders) =>
                        /\ c.st \in {"view", "layout"}
                        /\ Len(d.renders) = Len(c.renders) + 1]_vars
    /\ [](\A i \in 1..2 :
            LET c == <<rv, rv2>>[i]
            IN  /\ Len(c.renders) <= 2
                /\ (Len(c.renders) >= 1) => c.renders[1].filePath = c.path
                /\ (Len(c.renders) = 2) =>
                      /\ c.layout # NoLayout
                      /\ c.renders[2].filePath = tplOps[c.tid].key
                      /\ c.renders[2].context = WithBody(c.opts.context, c.body))
    /\ (rv.st # "idle") ~> (rv.st = "done")
    /\ (rv2.st # "idle") ~> (rv2.st = "done")

\* The second call rendered layouts/main.hbs as its view and then as its
\* layout, twice in all, and delivered the view wrapped in itself.
C31_Witness ==
    /\ rv2.st = "done"
    /\ rv2.ret.st = "ok"
    /\ Len(rv2.renders) = 2
    /\ Resolve(rv2.renders[1].filePath) = rv2.renders[2].filePath
    /\ rv2.ret.html = <<"<body>", "<body>", "</body>", "</body>">>

\* C32: right after resetCache(), a cache-enabled getTemplate of a path whose
\* template cache holds an entry is served that entry, the artifact compiled
\* before the reset, and starts no file read, whatever the file holds now;
\* one whose template cache holds none starts a new read, which the File
\* Cache then holds, and a read that succeeds yields the text the file has
\* when it completes.
C32_ArtifactOutlivesReset ==
    /\ [][\A q \in RawFiles, pre \in BOOLEAN :
            LET key == Resolve(q)
                tc  == IF pre THEN precompiled ELSE compiled
            IN  (last.act = "all" /\ last' = Other /\ GetTemplate(q, TRUE, pre)) =>
                    IF Has(tc, key)
                    THEN /\ fsOps' = fsOps
                         /\ tplOps' = tplOps
                         /\ ~Has(fsCache', key)
                         /\ compiled' = compiled /\ precompiled' = precompiled
                         /\ reqs' \subseteq reqs \cup {Req("tpl", key, pre, tc[key], FALSE)}
                    ELSE /\ Len(fsOps') = Len(fsOps) + 1
                         /\ fsOps'[Len(fsOps')] = FsOp(key, "file")
                         /\ fsCache'[key] = Len(fsOps')
                         /\ tplOps'[Len(tplOps')].dep = Len(fsOps')]_vars
    /\ [][\A id \in DOMAIN fsOps :
            (fsOps[id].st = "pending" /\ fsOps'[id].st = "ok" /\ fsOps[id].kind = "file")
                => fsOps'[id].val = FileVal(disk)]_vars

\* The compiled template of a.hbs was made from the text the file had before
\* it changed and the File Cache was reset; the precompiled one, obtained
\* with the cache enabled after the reset, and the File Cache hold the new text.
C32_Witness ==
    /\ Has(compiled, KeyA) /\ Has(precompiled, KeyA) /\ Has(fsCache, KeyA)
    /\ tplOps[compiled[KeyA]].st = "ok"
    /\ tplOps[precompiled[KeyA]].st = "ok"
    /\ compiled[KeyA] < precompiled[KeyA]
    /\ tplOps[precompiled[KeyA]].dep = fsCache[KeyA]
    /\ fsOps[fsCache[KeyA]].val = FileVal(disk)
    /\ tplOps[precompiled[KeyA]].val.text = disk
    /\ tplOps[compiled[KeyA]].val.text # disk

\* C33: a getTemplate call with cache = false starts a read and a compilation
\* of its own and leaves the compiled and the precompiled cache as they were,
\* so that no later cache-enabled call is served what it produced.
C33_UncachedTemplateLeavesCaches ==
    [][\A q \in RawFiles, pre \in BOOLEAN :
          (last'.act = "uncached" /\ GetTemplate(q, FALSE, pre)) =>
              /\ Len(fsOps') = Len(fsOps) + 1
              /\ Len(tplOps') = Len(tplOps) + 1
              /\ compiled' = compiled
              /\ precompiled' = precompiled]_vars

\* C34: every render and renderView call that was made settles, with HTML or
\* with an error, when the file-system operations complete or fail.  A call
\* that has not settled always has something to wait for: a pending
\* operation, or a continuation that is ready.  Two calls whose last render
\* waited on one and the same template promise, in flight or settled when
\* they joined it, get the same outcome of it: its failure, or the HTML it
\* gives for their context.
C34_EveryCallSettles ==
    /\ (rv.st # "idle") ~> (rv.st = "done" /\ rv.ret.st \in {"ok", "err"})
    /\ (rv2.st # "idle") ~> (rv2.st = "done" /\ rv2.ret.st \in {"ok", "err"})
    /\ [](\/ rv.st \in {"idle", "done"} /\ rv2.st \in {"idle", "done"}
          \/ \E id \in DOMAIN fsOps : fsOps[id].st = "pending"
          \/ \E i \in 1..2 :
                LET c == <<rv, rv2>>[i]
                    g == <<gp, gp2>>[i]
                IN  \/ c.st = "partials" /\ g.st \in {"ok", "err"}
                    \/ c.st \in {"view", "layout"} /\ Settled(tplOps[c.tid])
                    \/ /\ c.st = "render"
                       /\ \/ tplOps[c.tid].st = "err"
                          \/ ~c.opts.hasPartials /\ g.st = "err"
                          \/ tplOps[c.tid].st = "ok" /\ (c.opts.hasPartials \/ g.st = "ok"))
    /\ []((rv.st = "done" /\ rv2.st = "done" /\ rv.tid # 0 /\ rv.tid = rv2.tid) =>
            LET t == tplOps[rv.tid]
                own(c) == c.direct /\ ~c.opts.hasPartials /\ gp.st = "err"
                                   /\ c.ret = Ret("err", <<>>, gp.err)
            IN  /\ Settled(t)
                /\ (t.st = "err") =>
                      \A c \in {rv, rv2} : c.ret = Ret("err", <<>>, t.val) \/ own(c)
                /\ (/\ t.st = "ok" /\ rv.renders # <<>> /\ rv2.renders # <<>>
                    /\ rv.renders[Len(rv.renders)].context
                           = rv2.renders[Len(rv2.renders)].context) =>
                      rv.ret = rv2.ret)

\* The second call was made with the cache enabled while the first waited on
\* the read of the view a.hbs, joined that template promise, and both calls
\* were rejected with the failure of the one read.
C34_Witness ==
    /\ rv.st = "done" /\ rv2.st = "done"
    /\ rv.tid # 0 /\ rv.tid = rv2.tid
    /\ Len(tplOps) = 1
    /\ tplOps[1].key = KeyA
    /\ tplOps[1].val = ErrVal("readError")
    /\ rv.ret = Ret("err", <<>>, ErrVal("readError"))
    /\ rv2.ret = rv.ret

\* C35: the layout render of a renderView call starts only once the render
\* of the view has given its HTML, which becomes the body.  When the render
\* of the view fails, the step that takes the failure starts nothing, and
\* the call ends with no read, no template and no cache entry of a layout
\* path and with no render run.
C35_LayoutOnlyAfterView ==
    /\ [](rv.st = "layout" =>
            /\ Len(rv.renders) = 1
            /\ rv.renders[1].filePath = rv.path
            /\ \E t \in DOMAIN tplOps :
                  /\ tplOps[t].key = Resolve(rv.path)
                  /\ tplOps[t].st = "ok"
                  /\ RenderTemplate(tplOps[t].val, rv.opts.context) = Out(NoVal, rv.body))
    /\ [](LET failed == /\ rv.st = "done" /\ rv.tid # 0
                        /\ tplOps[rv.tid].key = Resolve(rv.path)
                        /\ Rendered(rv, rv.opts.context).err # NoVal
              layoutKeys == DOMAIN LayoutFiles
                               \cup {ResolveLayoutPath(rv.layout, inst.layoutsDir)}
          IN  failed =>
                /\ rv.renders = <<>>
                /\ \A k \in layoutKeys :
                      /\ \A id \in DOMAIN fsOps : fsOps[id].key # k
                      /\ \A t \in DOMAIN tplOps : tplOps[t].key # k
                      /\ ~Has(fsCache, k) /\ ~Has(compiled, k) /\ ~Has(precompiled, k))
    /\ [][(rv.st = "view" /\ rv'.st = "done" /\ tplOps[rv.tid].st = "err") =>
            /\ fsOps' = fsOps /\ tplOps' = tplOps
            /\ fsCache' = fsCache /\ compiled' = compiled /\ precompiled' = precompiled]_vars

\* The view a.hbs was rejected by the compiler in a call whose layout is the
\* default layout 'main': the completion function got the error, and only
\* the view was read.
C35_Witness ==
    /\ rv.st = "done"
    /\ disk = "bad"
    /\ rv.layout = LayoutMain
    /\ rv.cb = "returns"
    /\ rv.calls = <<Invocation(ErrVal("compileError"), <<>>)>>
    /\ \A id \in DOMAIN fsOps : fsOps[id].key \notin DOMAIN LayoutFiles
    /\ \E id \in DOMAIN fsOps : fsOps[id].key = KeyA

\* C36: the failure of an operation removes no entry but its own: when a
\* read fails while the File Cache holds another promise under its key, put
\* there after a resetCache or by another call, that promise stays cached;
\* and when a getTemplate promise fails while its cache holds another
\* promise under its key, that promise stays cached.
C36_FailureEvictsOwnEntryOnly ==
    [][/\ \A id \in DOMAIN fsOps :
             (/\ fsOps[id].st = "pending" /\ fsOps'[id].st = "err"
              /\ Has(fsCache, fsOps[id].key)
              /\ fsCache[fsOps[id].key] # id) =>
                 /\ Has(fsCache', fsOps[id].key)
                 /\ fsCache'[fsOps[id].key] = fsCache[fsOps[id].key]
       /\ \A t \in DOMAIN tplOps :
             LET tc  == IF tplOps[t].pre THEN precompiled ELSE compiled
                 tcn == IF tplOps[t].pre THEN precompiled' ELSE compiled'
             IN  (/\ tplOps[t].st = "pending" /\ tplOps'[t].st = "err"
                  /\ Has(tc, tplOps[t].key)
                  /\ tc[tplOps[t].key] # t) =>
                     /\ Has(tcn, tplOps[t].key)
                     /\ tcn[tplOps[t].key] = tc[tplOps[t].key]]_vars

\* C37: a resetCache is not undone by what was in flight when it ran.  A
\* resetCache() empties the File Cache and leaves the pending reads and
\* listings pending; a read or listing that completes with its result
\* leaves the File Cache as it is; and a key comes into the File Cache only
\* in the step of a call that starts a new read or listing of it, as the
\* promise that call created.
C37_ResetIsNotUndone ==
    [][/\ (last'.act = "all" /\ ResetCache(SelAll)) =>
             /\ fsCache' = Empty
             /\ fsOps' = fsOps
       /\ \A id \in DOMAIN fsOps :
             (fsOps[id].st = "pending" /\ fsOps'[id].st = "ok") => fsCache' = fsCache
       /\ \A k \in DOMAIN fsCache' \ DOMAIN fsCache :
             /\ Len(fsOps') = Len(fsOps) + 1
             /\ fsCache'[k] = Len(fsOps')
             /\ fsOps'[Len(fsOps')].key = k]_vars

\* The read of a.hbs and the listing of /app were cached when resetCache()
\* removed them; both have completed with their results, and the File Cache
\* is empty.
C37_Witness ==
    /\ last = Did("all", TRUE)
    /\ Len(fsOps) = 2
    /\ \E i, j \in DOMAIN fsOps :
          /\ fsOps[i].key = KeyA /\ fsOps[i].st = "ok" /\ fsOps[i].val = FileVal("v1")
          /\ fsOps[j].key = KeyD /\ fsOps[j].st = "ok" /\ fsOps[j].val = DirVal({"a.hbs"})
    /\ fsCache = Empty

\* C38: a renderView call runs getPartials once, in the step that makes the
\* call: no later step of the call starts a directory listing or a
\* getPartials call, no directory is listed twice, and every render of the
\* call, of the view and of the layout, is given the one mapping merged from
\* the outcome of that getPartials call and the partials of the options.
C38_PartialsResolvedOnce ==
    /\ [][rv.st # "idle" =>
            /\ {id \in DOMAIN fsOps' : fsOps'[id].kind = "dir"}
                  = {id \in DOMAIN fsOps : fsOps[id].kind = "dir"}
            /\ gp'.st # "idle" /\ gp'.cache = gp.cache /\ gp'.defined = gp.defined
            /\ Len(gp'.tasks) = Len(gp.tasks)
            /\ last' = last]_vars
    /\ [](\A i, j \in DOMAIN fsOps :
             (fsOps[i].kind = "dir" /\ fsOps[j].kind = "dir" /\ fsOps[i].key = fsOps[j].key)
                => i = j)
    /\ [](\A j \in DOMAIN rv.renders :
             /\ gp.st = "ok"
             /\ rv.renders[j].partials = Merge(gp.val, rv.opts.partials)
             /\ rv.partials = rv.renders[j].partials)

\* A call without the cache on an instance with two partials directories
\* rendered the view and the layout 'main': each directory was listed once,
\* and both renders were given the same partials, of the two directories.
C38_Witness ==
    /\ rv.st = "done"
    /\ ~rv.opts.cache
    /\ Len(rv.renders) = 2
    /\ rv.renders[2].filePath # rv.renders[1].filePath
    /\ rv.renders[1].partials = rv.renders[2].partials
    /\ Cardinality(DOMAIN rv.renders[2].partials) = 2
    /\ Cardinality({id \in DOMAIN fsOps : fsOps[id].kind = "dir"}) = 2

\* C39: whatever the interleaving of two renderView calls on the instance,
\* the entries the getPartials run of a call works on are the partialsDir
\* of that call: the configured entries, or the directory `partials` under
\* the views root the call resolved for its own view; the listing it waits
\* on is the listing of that directory, and this stays so when the other
\* call assigns this.partialsDir.  The step that makes a call leaves
\* this.partialsDir at the value of that call.
C39_ResolverReadsOwnPartialsDir ==
    /\ [](\A i \in 1..2 :
            LET c == <<rv, rv2>>[i]
                g == <<gp, gp2>>[i]
                own == IF inst.config.partialsDir.defined THEN inst.config.partialsDir.dirs
                       ELSE <<DescStr(Join(ResolveViewsPath(c.opts.views, c.path),
                                           <<"partials">>))>>
            IN  (c.st # "idle") =>
                   /\ Len(g.tasks) = Len(own)
                   /\ \A k \in DOMAIN g.tasks :
                         /\ g.tasks[k].desc = own[k]
                         /\ g.tasks[k].op \in DOMAIN fsOps
                         /\ fsOps[g.tasks[k].op].kind = "dir"
                         /\ fsOps[g.tasks[k].op].key = Resolve(own[k].dir))
    /\ [][\A i \in 1..2 :
            LET c == <<rv, rv2>>[i]
                d == <<rv', rv2'>>[i]
                g == <<gp', gp2'>>[i]
            IN  (c.st = "idle" /\ d.st # "idle") =>
                   /\ inst'.partialsDir.defined
                   /\ [k \in DOMAIN g.tasks |-> g.tasks[k].desc] = inst'.partialsDir.dirs]_vars

\* Two calls are in flight whose views roots differ.  The first waits on
\* the listing of the partials directory under its own root, while
\* this.partialsDir is the directory under the root of the second, which the
\* second call has listed.
C39_Witness ==
    /\ rv.st = "partials" /\ gp.st = "pending"
    /\ rv2.st \notin {"idle", "done"}
    /\ Len(gp.tasks) = 1 /\ Len(gp2.tasks) = 1
    /\ gp.tasks[1].st = "listing"
    /\ Resolve(gp.tasks[1].desc.dir) # Resolve(gp2.tasks[1].desc.dir)
    /\ inst.partialsDir.dirs = <<gp2.tasks[1].desc>>
    /\ fsOps[gp.tasks[1].op].key
          = Resolve(Join(ResolveViewsPath(rv.opts.views, rv.path), <<"partials">>))
    /\ fsOps[gp.tasks[1].op].st = "pending"

====
